---- MODULE Spec2Model ----
(***************************************************************************)
(* GrindBot (src/bot/grind_bot.py): the waypoint ring and its navigator    *)
(* (find_quickest_way_to, turn_to, resync_to_vault) and the dedi wall      *)
(* reader (get_dedi_screenshot, find_all_dedi_positions,                   *)
(* get_dedi_materials); CrystalStation                                     *)
(* (src/bot/stations/crystal/crystal_station.py) and YTrapStation          *)
(* (src/bot/stations/ytrap/ytrap_station.py): complete and what it calls;  *)
(* GachaBot (src/bot/gacha_bot.py): do_next_task and what it calls.        *)
(*                                                                         *)
(* The bot is single threaded: pc is the position of the one thread, and   *)
(* every loop iteration of turn_to / get_dedi_materials is one step.       *)
(***************************************************************************)
EXTENDS Integers, Sequences, FiniteSets, TLC

VARIABLES
    station_turns,    \* self.station_turns: the ring, in dict insertion order
    current_station,  \* self.current_station
    pc,               \* position of the bot's thread
    target,           \* turn_to: the argument
    start,            \* turn_to: self.current_station when it was called
    path,             \* turn_to: path returned by find_quickest_way_to
    direction,        \* turn_to: direction returned by find_quickest_way_to
    pathIdx,          \* turn_to: position of `for station in path`
    turnIdx,          \* turn_to: position of `for turn in station_turns[station]`
    issued,           \* turn_to: the player.turn_*_by calls made so far
    i,                \* get_dedi_materials: the loop variable of range(10)
    dedis,            \* get_dedi_materials: result of find_all_dedi_positions
    ocrIdx,           \* get_dedi_materials: position of `for name in dedis`
    amounts,          \* get_dedi_materials: the dict being filled
    pressed,          \* get_dedi_materials: keys pressed by self.press
    captures,         \* get_dedi_materials: calls of get_dedi_screenshot
    outcome,          \* get_dedi_materials: how the call ended
    shots,            \* get_dedi_materials: for every key of amounts, the
                      \* number of the screenshot its crop was cut from
    t_owned,          \* get_amount_turret: the argument
    t_can_craft,      \* get_amount_turret: the value returned
    op,               \* the method that took the last step
    now,              \* time.time() / datetime.now(), in seconds
    \* CrystalStation
    stryder_depositing,  \* self._stryder_depositing
    interval,            \* self.station_data.interval
    last_completed,      \* self.station_data.last_completed
    first_pickup,        \* self._first_pickup
    total_pickups,       \* self._total_pickups
    total_made,          \* self._total_dust_made, _total_pearls_made,
                         \* _total_flint_made, _total_stone_made,
                         \* _total_wood_made, by item
    grinding_ready,      \* self.grinding_station.ready
    arb_wood,            \* wood handed to self.arb_station.add_wood
    cr_pc,               \* position of a caller of CrystalStation
    cr_raised,           \* complete: the step that raised, "none" if none
    cr_profit,           \* complete: stats.profit of the returned statistics
    v_amount,            \* validate_dust_amount: the argument
    v_result,            \* validate_dust_amount: the value returned
    w_pc,                \* walk_to_dedi: position in it
    w_count,             \* walk_to_dedi: count
    \* YTrapStation
    yt_current_bed,         \* self.current_bed
    refill_lap,             \* self.refill_lap
    current_lap,            \* self.current_lap
    last_refilled_pellets,  \* self.last_refilled_pellets
    total_ytraps_deposited, \* self.total_ytraps_deposited
    yt_pc,                  \* position of a caller of YTrapStation
    yt_raised,              \* complete: the step that raised, "none" if none
    yt_stats,               \* complete: the statistics it returned
    lg_stacks,              \* load_gacha: what count_item(Y_TRAP) returned
    lg_transferred,         \* load_gacha: what get_amount_transferred shows
    lg_amount,              \* load_gacha: the value returned
    \* GachaBot
    ytraps_deposited,  \* self._ytraps_deposited
    laps_completed,    \* self._laps_completed
    g_first_pickup,    \* self._first_pickup
    at_pod,            \* self._at_pod
    last_heal,         \* self._last_heal
    g_current_bed,     \* self._current_bed
    g_current_lap,     \* self._current_lap
    last_emptied,      \* self.last_emptied
    g_pc,              \* position in do_next_task
    crystal_idx,       \* do_next_task: the position in self.crystal_beds
    g_raised,          \* do_next_task: what it raised, "none" if nothing
    tick,              \* do_next_task: what this call has done so far
    captured,          \* number of screens grabbed for a notification
    temp,              \* the files under temp/: the screen each one holds
    workers,           \* the threads posting to discord that have not yet
                       \* run send_to_discord
    posted             \* what the last of them to run has posted

vars == <<station_turns, current_station, pc, target, start, path, direction,
          pathIdx, turnIdx, issued, i, dedis, ocrIdx, amounts, pressed,
          captures, outcome, shots, t_owned, t_can_craft, op, now,
          stryder_depositing, interval, last_completed, first_pickup,
          total_pickups, total_made, grinding_ready, arb_wood, cr_pc,
          cr_raised, cr_profit, v_amount, v_result, w_pc, w_count,
          yt_current_bed, refill_lap, current_lap, last_refilled_pellets,
          total_ytraps_deposited, yt_pc, yt_raised, yt_stats,
          lg_stacks, lg_transferred, lg_amount,
          ytraps_deposited, laps_completed, g_first_pickup, at_pod,
          last_heal, g_current_bed, g_current_lap, last_emptied, g_pc,
          crystal_idx, g_raised, tick, captured, temp, workers, posted>>

navVars == <<target, start, path, direction, pathIdx, turnIdx, issued>>
gdmVars == <<i, dedis, ocrIdx, amounts, pressed, captures, outcome, shots>>
turretVars == <<t_owned, t_can_craft>>
grindVars == <<station_turns, current_station, pc, navVars, gdmVars,
               turretVars>>
walkVars == <<w_pc, w_count>>
crystalVars == <<stryder_depositing, interval, last_completed, first_pickup,
                 total_pickups, total_made, grinding_ready, arb_wood, cr_pc,
                 cr_raised, cr_profit, v_amount, v_result, walkVars>>
loadVars == <<lg_stacks, lg_transferred, lg_amount>>
ytrapVars == <<yt_current_bed, refill_lap, current_lap, last_refilled_pellets,
               total_ytraps_deposited, yt_pc, yt_raised, yt_stats, loadVars>>
notifyVars == <<captured, temp, workers, posted>>
gachaVars == <<ytraps_deposited, laps_completed, g_first_pickup, at_pod,
               last_heal, g_current_bed, g_current_lap, last_emptied, g_pc,
               crystal_idx, g_raised, tick, notifyVars>>

\* what no method of GrindBot touches
notGrindVars == <<now, crystalVars, ytrapVars, gachaVars>>

----------------------------------------------------------------------------
(* The ring                                                                *)

Turn(axis, by) == [axis |-> axis, by |-> by]

Axes == {"x", "y"}

\* self.station_turns as built by __init__.  A station that records one
\* (method, amount) tuple is a one-element sequence here; "Gear Vault"
\* records a list of two.
StationTurns ==
    << [name |-> "Grinder",     turns |-> <<Turn("x", -50)>>],
       [name |-> "Exo Mek",     turns |-> <<Turn("x", -110)>>],
       [name |-> "Vault",       turns |-> <<Turn("x", -95)>>],
       [name |-> "Crystal",     turns |-> <<Turn("x", -70)>>],
       [name |-> "Hide",        turns |-> <<Turn("y", 40)>>],
       [name |-> "Metal",       turns |-> <<Turn("x", -60)>>],
       [name |-> "Electronics", turns |-> <<Turn("y", -40)>>],
       [name |-> "Pearls",      turns |-> <<Turn("x", -60)>>],
       [name |-> "Paste",       turns |-> <<Turn("y", 40)>>],
       [name |-> "Gear Vault",  turns |-> <<Turn("y", -40), Turn("x", -70)>>] >>

HomeStation == "Gear Vault"

\* list(self.station_turns)
Stations(st) == [k \in 1..Len(st) |-> st[k].name]

StationSet(st) == {st[k].name : k \in 1..Len(st)}

\* self.station_turns[station], as the list of turns the two branches of
\* turn_to iterate over
TurnsOf(st, station) ==
    st[CHOOSE k \in 1..Len(st) : st[k].name = station].turns

\* the k-th element produced by itertools.cycle(seq), k = 1, 2, ...
CycleAt(seq, k) == seq[((k - 1) % Len(seq)) + 1]

\* reversed(stations)
Reversed(seq) == [k \in 1..Len(seq) |-> seq[Len(seq) + 1 - k]]

----------------------------------------------------------------------------
(* find_quickest_way_to                                                    *)

\* A cycle() loop that has not hit its break within two rounds never will:
\* start_counting only ever goes from False to True, so the second round
\* repeats for ever.
Rounds(seq) == 2 * Len(seq)

\* the loop `for station in cycle(stations)`: the station that equals
\* current switches counting on and is skipped (continue)
RECURSIVE ForwardLoop(_, _, _, _, _, _)
ForwardLoop(seq, current, tgt, k, start_counting, forward_path) ==
    IF k > Rounds(seq)
    THEN [path |-> forward_path, terminated |-> FALSE]
    ELSE LET station == CycleAt(seq, k) IN
         IF station = current
         THEN ForwardLoop(seq, current, tgt, k + 1, TRUE, forward_path)
         ELSE IF ~start_counting
         THEN ForwardLoop(seq, current, tgt, k + 1, FALSE, forward_path)
         ELSE IF station = tgt
         THEN [path |-> Append(forward_path, station), terminated |-> TRUE]
         ELSE ForwardLoop(seq, current, tgt, k + 1, TRUE,
                          Append(forward_path, station))

\* the loop `for station in cycle(reversed(stations))`: the station that
\* equals current switches counting on and is NOT skipped, it is appended
RECURSIVE BackwardLoop(_, _, _, _, _, _)
BackwardLoop(seq, current, tgt, k, start_counting, backward_path) ==
    IF k > Rounds(seq)
    THEN [path |-> backward_path, terminated |-> FALSE]
    ELSE LET station  == CycleAt(seq, k)
             counting == start_counting \/ station = current
         IN
         IF ~counting
         THEN BackwardLoop(seq, current, tgt, k + 1, FALSE, backward_path)
         ELSE IF station = tgt
         THEN [path |-> Append(backward_path, station), terminated |-> TRUE]
         ELSE BackwardLoop(seq, current, tgt, k + 1, TRUE,
                           Append(backward_path, station))

forward_path(st, current, tgt) ==
    ForwardLoop(Stations(st), current, tgt, 1, FALSE, <<>>)

\* a plausible slip: the backward loop written like the forward one, with
\* `continue` after current is seen, so that current is not appended
backward_path_skipping_current(st, current, tgt) ==
    ForwardLoop(Reversed(Stations(st)), current, tgt, 1, FALSE, <<>>)

backward_path(st, current, tgt) ==
    BackwardLoop(Reversed(Stations(st)), current, tgt, 1, FALSE, <<>>)

\* a plausible slip: the comparison the wrong way round
ForwardIsQuicker_inverted(fwd, bwd) == Len(fwd) > Len(bwd)

\* `if len(forward_path) < len(backward_path)`
ForwardIsQuicker(fwd, bwd) == Len(fwd) < Len(bwd)

\* the two loops and the final comparison (lines 73-101)
QuickestOfBoth(st, current, tgt) ==
    LET fwd == forward_path(st, current, tgt)
        bwd == backward_path(st, current, tgt)
    IN
    IF ~fwd.terminated \/ ~bwd.terminated
    THEN [path |-> <<>>, direction |-> "none", terminated |-> FALSE]
    ELSE IF ForwardIsQuicker(fwd.path, bwd.path)
    THEN [path |-> fwd.path, direction |-> "forward", terminated |-> TRUE]
    ELSE [path |-> bwd.path, direction |-> "backwards", terminated |-> TRUE]

\* a plausible slip: no early return for target_station == current_station
find_quickest_way_to_no_stay(st, current, tgt) ==
    QuickestOfBoth(st, current, tgt)

find_quickest_way_to(st, current, tgt) ==
    IF tgt = current
    THEN [path |-> <<>>, direction |-> "stay", terminated |-> TRUE]
    ELSE QuickestOfBoth(st, current, tgt)

----------------------------------------------------------------------------
(* turn_to                                                                 *)

\* a plausible slip: no early return at the target of a backward path
StopsAtTarget_never(dir, station, tgt) == FALSE

\* `if direction == "backwards" and station == target: return`
StopsAtTarget(dir, station, tgt) == dir = "backwards" /\ station = tgt

\* a plausible slip: the sign is not inverted on the way back
TurnArgs_unsigned(by, dir) == by

\* `turn[1] * (-1 if direction == "backwards" else 1)`
TurnArgs(by, dir) == by * (IF dir = "backwards" THEN -1 ELSE 1)

\* path, direction = self.find_quickest_way_to(target)
TurnToCall(t) ==
    /\ pc = "idle"
    /\ LET way == find_quickest_way_to(station_turns, current_station, t) IN
       /\ path' = way.path
       /\ direction' = way.direction
       /\ pc' = IF way.terminated THEN "for_station" ELSE "hung"
    /\ target' = t
    /\ start' = current_station
    /\ pathIdx' = 1
    /\ turnIdx' = 1
    /\ issued' = <<>>
    /\ op' = "turn_to"
    /\ UNCHANGED <<notGrindVars, turretVars>>
    /\ UNCHANGED <<station_turns, current_station>>
    /\ UNCHANGED gdmVars

\* head of `for station in path`: the loop is over (turn_to returns), or
\* current_station is set to the next station and either the early return
\* is taken or the station's turns are about to be issued
TurnToStation ==
    /\ pc = "for_station"
    /\ IF pathIdx > Len(path)
       THEN /\ pc' = "returned"
            /\ UNCHANGED current_station
       ELSE /\ current_station' = path[pathIdx]
            /\ pc' = IF StopsAtTarget(direction, path[pathIdx], target)
                     THEN "returned"
                     ELSE "issue_turn"
    /\ turnIdx' = 1
    /\ op' = "turn_to"
    /\ UNCHANGED <<notGrindVars, turretVars>>
    /\ UNCHANGED <<station_turns, target, start, path, direction, pathIdx, issued>>
    /\ UNCHANGED gdmVars

\* method(args) for one turn of the station (both the list branch and the
\* single tuple branch); after the station's last turn the for loop goes on
TurnToIssue ==
    /\ pc = "issue_turn"
    /\ LET turns == TurnsOf(station_turns, path[pathIdx])
           turn  == turns[turnIdx]
       IN
       /\ issued' = Append(issued, Turn(turn.axis, TurnArgs(turn.by, direction)))
       /\ IF turnIdx < Len(turns)
          THEN /\ turnIdx' = turnIdx + 1
               /\ UNCHANGED <<pathIdx, pc>>
          ELSE /\ turnIdx' = 1
               /\ pathIdx' = pathIdx + 1
               /\ pc' = "for_station"
    /\ op' = "turn_to"
    /\ UNCHANGED <<notGrindVars, turretVars>>
    /\ UNCHANGED <<station_turns, current_station, target, start, path, direction>>
    /\ UNCHANGED gdmVars

\* the locals of turn_to before it is called and after it is left
NoTurnTo ==
    /\ target = HomeStation
    /\ start = HomeStation
    /\ path = <<>>
    /\ direction = "none"
    /\ pathIdx = 1
    /\ turnIdx = 1
    /\ issued = <<>>

\* turn_to has returned to its caller (grind_riot_gear, grind_down_for_metal,
\* craft_turrets); its locals are gone
TurnToReturn ==
    /\ pc = "returned"
    /\ pc' = "idle"
    /\ target' = HomeStation
    /\ start' = HomeStation
    /\ path' = <<>>
    /\ direction' = "none"
    /\ pathIdx' = 1
    /\ turnIdx' = 1
    /\ issued' = <<>>
    /\ op' = "turn_to"
    /\ UNCHANGED <<notGrindVars, turretVars>>
    /\ UNCHANGED <<station_turns, current_station>>
    /\ UNCHANGED gdmVars

----------------------------------------------------------------------------
(* resync_to_vault                                                         *)

\* a plausible slip: the wrong waypoint name after a resync without turn
ResyncStation_wrong_name(turn) == IF turn THEN "Gear Vault" ELSE "Vault"

\* a plausible slip: a name that is not a key of station_turns
ResyncStation_misspelled(turn) == IF turn THEN "Gear Vault" ELSE "Electronic"

\* `self.current_station = "Gear Vault"` / `self.current_station = "Electronics"`
ResyncStation(turn) == IF turn THEN "Gear Vault" ELSE "Electronics"

ResyncToVault(turn) ==
    /\ pc = "idle"
    /\ current_station' = ResyncStation(turn)
    /\ op' = "resync_to_vault"
    /\ UNCHANGED <<notGrindVars, turretVars>>
    /\ UNCHANGED <<station_turns, pc>>
    /\ UNCHANGED navVars
    /\ UNCHANGED gdmVars

----------------------------------------------------------------------------
(* find_all_dedi_positions, get_dedi_screenshot, get_dedi_materials        *)

\* `for dedi in ("pearl", "paste", "ingots", "electronics", "crystal", "hide")`
DediOrder == <<"pearl", "paste", "ingots", "electronics", "crystal", "hide">>

DediNames == {DediOrder[k] : k \in 1..Len(DediOrder)}

\* range(10)
MaxAttempts == 10

\* None, as find_all_dedi_positions returns it when a region is missing
NoDedis == [isNone |-> TRUE, images |-> {}]

\* the loop of find_all_dedi_positions over the dedi names; located is the
\* set of names for which find_dedi finds a region in this screenshot
RECURSIVE FindAllLoop(_, _, _)
FindAllLoop(located, k, images) ==
    IF k > Len(DediOrder)
    THEN [isNone |-> FALSE, images |-> images]
    ELSE IF DediOrder[k] \notin located
    THEN NoDedis
    ELSE FindAllLoop(located, k + 1, images \cup {DediOrder[k]})

\* a plausible slip: `continue` instead of `return` on a missing region, so
\* that the regions that were found are returned
find_all_dedi_positions_partial(located) ==
    [isNone |-> FALSE, images |-> located \cap DediNames]

find_all_dedi_positions(located) == FindAllLoop(located, 1, {})

\* `not dedis`: None and the empty dict are both falsy
NotDedis(d) == d.isNone \/ d.images = {}

\* `for name in dedis`: the keys of the dict in insertion order
DediKeys(d) == SelectSeq(DediOrder, LAMBDA n : n \in d.images)

\* a plausible slip: the key chosen by the parity of the attempt
ProbeKey_by_parity(n) == IF n % 2 = 0 THEN "w" ELSE "s"

\* `if i % 3 == 0 or not i: press("w") else: press("s")`
ProbeKey(n) == IF n % 3 = 0 \/ n = 0 THEN "w" ELSE "s"

\* What tesseract can give back for one crop with the digit whitelist:
\* digits, blanks and line ends.
Whitespace == {" ", "\n"}

DigitValue == ("0" :> 0) @@ ("2" :> 2) @@ ("4" :> 4) @@ ("7" :> 7)

RawResults == { <<>>, <<"\n">>, <<"7">>, <<"4", "2", "\n">>, <<"4", " ", "2">> }

\* str.rstrip()
RECURSIVE RStrip(_)
RStrip(s) ==
    IF s # <<>> /\ s[Len(s)] \in Whitespace
    THEN RStrip(SubSeq(s, 1, Len(s) - 1))
    ELSE s

\* str.lstrip(), which int() applies to its argument
RECURSIVE LStrip(_)
LStrip(s) ==
    IF s # <<>> /\ s[1] \in Whitespace
    THEN LStrip(Tail(s))
    ELSE s

RECURSIVE DigitsValue(_, _)
DigitsValue(s, acc) ==
    IF s = <<>> THEN acc
    ELSE DigitsValue(Tail(s), 10 * acc + DigitValue[s[1]])

\* int(raw_result): ValueError on the empty string and on anything that is
\* not a run of digits once the surrounding whitespace is removed
ParseInt(s) ==
    LET t == LStrip(RStrip(s)) IN
    IF t # <<>> /\ \A k \in 1..Len(t) : t[k] \in DOMAIN DigitValue
    THEN [ok |-> TRUE, value |-> DigitsValue(t, 0)]
    ELSE [ok |-> FALSE, value |-> 0]

\* amounts[name] = value on a dict kept as a set of <<key, value>> pairs
DictSet(dict, key, value) ==
    {kv \in dict : kv[1] # key} \cup {<<key, value>>}

DictKeys(dict) == {kv[1] : kv \in dict}

\* the locals of get_dedi_materials before it is called and after it is left
NoGetDediMaterials ==
    /\ i = 0
    /\ dedis = NoDedis
    /\ ocrIdx = 1
    /\ amounts = {}
    /\ pressed = <<>>
    /\ captures = 0
    /\ outcome = "none"
    /\ shots = {}

\* get_dedi_materials is entered
GetDediMaterialsCall ==
    /\ pc = "idle"
    /\ pc' = "gdm_attempt"
    /\ i' = 0
    /\ dedis' = NoDedis
    /\ ocrIdx' = 1
    /\ amounts' = {}
    /\ pressed' = <<>>
    /\ captures' = 0
    /\ outcome' = "running"
    /\ shots' = {}
    /\ op' = "get_dedi_materials"
    /\ UNCHANGED <<notGrindVars, turretVars>>
    /\ UNCHANGED <<station_turns, current_station>>
    /\ UNCHANGED navVars

\* a plausible slip: the screenshot is taken in the first iteration only and
\* the later attempts search and read that first image again
GdmAttempt_one_screenshot(located) ==
    /\ pc = "gdm_attempt"
    /\ i < MaxAttempts
    /\ amounts' = {}
    /\ shots' = {}
    /\ current_station' = ResyncStation(FALSE)
    /\ captures' = IF i = 0 THEN 1 ELSE captures
    /\ dedis' = find_all_dedi_positions(located)
    /\ IF NotDedis(dedis')
       THEN /\ pressed' = Append(pressed, ProbeKey(i))
            /\ i' = i + 1
            /\ UNCHANGED <<pc, ocrIdx>>
       ELSE /\ pc' = "gdm_ocr"
            /\ ocrIdx' = 1
            /\ UNCHANGED <<pressed, i>>
    /\ op' = "get_dedi_materials"
    /\ UNCHANGED <<notGrindVars, turretVars>>
    /\ UNCHANGED <<station_turns, outcome>>
    /\ UNCHANGED navVars

\* one iteration of `for i in range(10)` up to the OCR loop: amounts is
\* reset, get_dedi_screenshot resyncs without turning and grabs the screen,
\* find_all_dedi_positions looks for the six regions, and when one is
\* missing a key is pressed and the loop continues
GdmAttempt(located) ==
    /\ pc = "gdm_attempt"
    /\ i < MaxAttempts
    /\ amounts' = {}
    /\ shots' = {}
    /\ current_station' = ResyncStation(FALSE)
    /\ captures' = captures + 1
    /\ dedis' = find_all_dedi_positions(located)
    /\ IF NotDedis(dedis')
       THEN /\ pressed' = Append(pressed, ProbeKey(i))
            /\ i' = i + 1
            /\ UNCHANGED <<pc, ocrIdx>>
       ELSE /\ pc' = "gdm_ocr"
            /\ ocrIdx' = 1
            /\ UNCHANGED <<pressed, i>>
    /\ op' = "get_dedi_materials"
    /\ UNCHANGED <<notGrindVars, turretVars>>
    /\ UNCHANGED <<station_turns, outcome>>
    /\ UNCHANGED navVars

\* one iteration of `for name in dedis`: OCR, rstrip, int(); a ValueError
\* of int() leaves get_dedi_materials, the last name leads to the return
GdmOcr(raw) ==
    /\ pc = "gdm_ocr"
    /\ LET names  == DediKeys(dedis)
           name   == names[ocrIdx]
           parsed == ParseInt(RStrip(raw))
       IN
       IF ~parsed.ok
       THEN /\ outcome' = "ValueError"
            /\ pc' = "gdm_done"
            /\ UNCHANGED <<amounts, shots, ocrIdx>>
       ELSE /\ amounts' = DictSet(amounts, name, parsed.value)
            /\ shots' = DictSet(shots, name, captures)
            /\ IF ocrIdx < Len(names)
               THEN /\ ocrIdx' = ocrIdx + 1
                    /\ UNCHANGED <<pc, outcome>>
               ELSE /\ outcome' = "returned"
                    /\ pc' = "gdm_done"
                    /\ UNCHANGED ocrIdx
    /\ op' = "get_dedi_materials"
    /\ UNCHANGED <<notGrindVars, turretVars>>
    /\ UNCHANGED <<station_turns, current_station, i, dedis, pressed, captures>>
    /\ UNCHANGED navVars

\* the for loop is exhausted: `raise Exception`
GdmExhausted ==
    /\ pc = "gdm_attempt"
    /\ i >= MaxAttempts
    /\ outcome' = "Exception"
    /\ pc' = "gdm_done"
    /\ op' = "get_dedi_materials"
    /\ UNCHANGED <<notGrindVars, turretVars>>
    /\ UNCHANGED <<station_turns, current_station, i, dedis, ocrIdx, amounts,
                   pressed, captures, shots>>
    /\ UNCHANGED navVars

\* get_dedi_materials has returned or raised to its caller (start); its
\* locals are gone
GdmExit ==
    /\ pc = "gdm_done"
    /\ pc' = "idle"
    /\ i' = 0
    /\ dedis' = NoDedis
    /\ ocrIdx' = 1
    /\ amounts' = {}
    /\ pressed' = <<>>
    /\ captures' = 0
    /\ outcome' = "none"
    /\ shots' = {}
    /\ op' = "get_dedi_materials"
    /\ UNCHANGED <<notGrindVars, turretVars>>
    /\ UNCHANGED <<station_turns, current_station>>
    /\ UNCHANGED navVars

----------------------------------------------------------------------------
(* The clock                                                               *)

\* one step of the clock, in seconds
TickSeconds == 12 * 3600

\* the clock is read up to MaxTicks steps after the start
MaxTicks == 3

----------------------------------------------------------------------------
(* The steps of a call, of which one may raise                             *)

Range(seq) == {seq[k] : k \in 1..Len(seq)}

StepIndex(steps, step) ==
    IF step = "none" THEN Len(steps) + 1
    ELSE CHOOSE k \in 1..Len(steps) : steps[k] = step

\* the step was passed without raising, when the first to raise is raised
Passed(steps, step, raised) == StepIndex(steps, step) < StepIndex(steps, raised)

----------------------------------------------------------------------------
(* get_amount_turret                                                       *)

AUTO_TURRET_COST ==
    [paste |-> 50, electronics |-> 70, ingots |-> 140, poly |-> 20]

HEAVY_AUTO_TURRET_COST ==
    [paste |-> 150, electronics |-> 200, ingots |-> 400, poly |-> 50]

\* the keys of cost, in the order `for material in cost` takes them
CostOrder == <<"paste", "ingots", "electronics">>

Materials == {CostOrder[k] : k \in 1..Len(CostOrder)}

NoCost == [material \in Materials |-> 0]

\* the costs are not higher than what is owned
Affordable_up_to_owned(cost, owned) ==
    \A material \in Materials : cost[material] <= owned[material]

\* `all(cost[material] < owned[material] for material in cost)`
Affordable(cost, owned) ==
    \A material \in Materials : cost[material] < owned[material]

\* `while True`, from the k-th material of the for loop on: the cost of
\* that material grows by the two turrets, and the test is made after
\* every single material
RECURSIVE TurretLoop(_, _, _, _)
TurretLoop(owned, cost, k, can_craft) ==
    LET material == CostOrder[k]
        grown    == [cost EXCEPT ![material] =
                        @ + AUTO_TURRET_COST[material]
                          + HEAVY_AUTO_TURRET_COST[material]]
    IN  IF ~Affordable(grown, owned) THEN can_craft
        ELSE IF k < Len(CostOrder)
             THEN TurretLoop(owned, grown, k + 1, can_craft)
             ELSE TurretLoop(owned, grown, 1, can_craft + 1)

get_amount_turret(owned) == TurretLoop(owned, NoCost, 1, 0)

\* the amounts owned in the calls of get_amount_turret
OwnedAmounts ==
    [paste : {0, 199, 200, 201, 400, 401},
     ingots : {0, 540, 541, 1080, 1081},
     electronics : {0, 270, 271, 540, 541}]

NoGetAmountTurret ==
    /\ t_owned = NoCost
    /\ t_can_craft = 0

GetAmountTurretCall(owned) ==
    /\ pc = "idle"
    /\ pc' = "can_craft"
    /\ t_owned' = owned
    /\ t_can_craft' = get_amount_turret(owned)
    /\ op' = "get_amount_turret"
    /\ UNCHANGED notGrindVars
    /\ UNCHANGED <<station_turns, current_station, navVars, gdmVars>>

\* the caller has taken the result
GetAmountTurretReturn ==
    /\ pc = "can_craft"
    /\ pc' = "idle"
    /\ t_owned' = NoCost
    /\ t_can_craft' = 0
    /\ op' = "return"
    /\ UNCHANGED notGrindVars
    /\ UNCHANGED <<station_turns, current_station, navVars, gdmVars>>

----------------------------------------------------------------------------
(* CrystalStation                                                          *)

DUST == "DUST"
BLACK_PEARL == "BLACK_PEARL"
FLINT == "FLINT"
STONE == "STONE"
FUNGAL_WOOD == "FUNGAL_WOOD"

Items == {DUST, BLACK_PEARL, FLINT, STONE, FUNGAL_WOOD}

\* CrystalStation.is_ready consults the counter below this many Y-traps
YTrapsBeforeCrystals == 2000

\* Station.is_ready: the interval of the station has passed since its last
\* completion
StationIsReady(time, completed, every) == time - completed >= every

is_ready_without_ytraps(deposited, time, completed, every) ==
    StationIsReady(time, completed, every)

\* CrystalStation.is_ready
is_ready(deposited, time, completed, every) ==
    IF deposited < YTrapsBeforeCrystals
    THEN FALSE
    ELSE StationIsReady(time, completed, every)

\* round(a / b) of two non-negative ints, b > 0: to the nearest, a half to
\* the even neighbour
RoundDiv(a, b) ==
    LET q == a \div b
        r == a % b
    IN  IF 2 * r < b THEN q
        ELSE IF 2 * r > b THEN q + 1
        ELSE IF q % 2 = 0 THEN q ELSE q + 1

\* validate_dust_amount, the statements after its first return: the usual
\* amount of one pickup
average_amount(dust, pickups, every) ==
    IF pickups = 0 THEN 100 * every ELSE RoundDiv(dust, pickups)

\* validate_dust_amount, the statements after its first return: the amount
\* when near the usual one, else the usual one
amount_or_average(amount, average) ==
    IF average - 5000 < amount /\ amount < average + 10000
    THEN amount
    ELSE average

validate_dust_amount_assuming_rate(amount, dust, pickups, every) ==
    amount_or_average(amount, 100 * every)

\* validate_dust_amount: its first statement returns the amount
validate_dust_amount(amount, dust, pickups, every) == amount

NoGains == [item \in Items |-> 0]

\* deposit_dedis: the turns of the player, one dedi each
DepositTurns == <<40, -50, -80, 50>>

\* attempt_deposit found nothing to deposit
NothingDeposited == <<>>

\* deposit_dedis: the loop from turn k on; deposited[k] is what
\* attempt_deposit returned at turn k
RECURSIVE DepositLoop(_, _, _)
DepositLoop(gains, deposited, k) ==
    IF k > Len(DepositTurns) THEN gains
    ELSE IF deposited[k] = NothingDeposited
         THEN DepositLoop(gains, deposited, k + 1)
         ELSE DepositLoop([gains EXCEPT ![deposited[k][1]] =
                                            @ + deposited[k][2]],
                          deposited, k + 1)

deposit_dedis(deposited) == DepositLoop(NoGains, deposited, 1)

\* a plausible slip: the profit without max(..., 0)
StryderProfit_unclamped(stacks, stack_size) ==
    IF 2 * stacks * stack_size - stack_size < 0
    THEN -((stack_size - 2 * stacks * stack_size) \div 2)
    ELSE (2 * stacks * stack_size - stack_size) \div 2

\* deposit_into_stryder: the profit of one item, counted[item] being
\* [stacks, stack_size]: int() cuts the half of an odd stack size
StryderProfit(stacks, stack_size) ==
    IF 2 * stacks * stack_size - stack_size < 0
    THEN 0
    ELSE (2 * stacks * stack_size - stack_size) \div 2

deposit_into_stryder(counted) ==
    [item \in Items |->
        StryderProfit(counted[item].stacks, counted[item].stack_size)]

\* the steps of complete that act on the game, in order
CrystalSteps ==
    <<"spawn", "pick_crystals", "open_inventory", "set_hotbar",
      "spam_hotbar", "deposit", "deposit_items">>

CrystalInTry_except_spawn(step) == step # "spawn"

\* complete: every step of it is inside the try statement
CrystalInTry(step) == TRUE

\* what the attempts to deposit return in the runs of deposit_dedis
DedisRuns ==
    { <<NothingDeposited, NothingDeposited, NothingDeposited,
        NothingDeposited>>,
      <<<<DUST, 3000>>, NothingDeposited, NothingDeposited,
        NothingDeposited>>,
      <<<<DUST, 3000>>, NothingDeposited, <<BLACK_PEARL, 20>>,
        NothingDeposited>>,
      <<<<DUST, 3000>>, <<DUST, 3000>>, NothingDeposited,
        <<BLACK_PEARL, 20>>>> }

Counted(stacks, stack_size) == [stacks |-> stacks, stack_size |-> stack_size]

\* what count_item returns, and the stack sizes, in the runs of
\* deposit_into_stryder
StryderRuns ==
    { [item \in Items |-> Counted(0, 100)],
      [item \in Items |->
          IF item = DUST THEN Counted(3, 1000) ELSE Counted(0, 100)],
      [item \in Items |->
          IF item = DUST THEN Counted(6, 1000)
          ELSE IF item = FUNGAL_WOOD THEN Counted(2, 100)
          ELSE IF item = BLACK_PEARL THEN Counted(1, 25)
          ELSE Counted(1, 100)] }

\* the amounts handed to validate_dust_amount
DustAmounts == {0, 3000, 12000, 50000}

\* successful completions are counted up to MaxPickups
MaxPickups == 3

\* the wood handed to the arb station is counted up to MaxArbWood
MaxArbWood == 450

\* station_data.interval, in seconds
CrystalInterval == TickSeconds

NoCrystalCall ==
    /\ cr_pc = "idle"
    /\ cr_raised = "none"
    /\ cr_profit = NoGains
    /\ v_amount = 0
    /\ v_result = 0

\* walk_to_dedi is not being executed
NoWalk ==
    /\ w_pc = "idle"
    /\ w_count = 0

\* CrystalStation.__init__
CrystalInit ==
    /\ stryder_depositing \in BOOLEAN
    /\ interval = CrystalInterval
    /\ last_completed = 0
    /\ first_pickup = TRUE
    /\ total_pickups = 0
    /\ total_made = NoGains
    /\ grinding_ready = FALSE
    /\ arb_wood = 0
    /\ NoCrystalCall
    /\ NoWalk

\* CrystalStation.complete, the whole call: raised is the first step that
\* raises ("none": no step does), deposited and counted are what the game
\* shows while depositing, vault_full is what deposit_items returns
CrystalComplete(raised, deposited, counted, vault_full) ==
    LET resources_deposited ==
            IF ~stryder_depositing
            THEN [deposit_dedis(deposited) EXCEPT ![DUST] =
                     validate_dust_amount(@, total_made[DUST], total_pickups,
                                          interval)]
            ELSE deposit_into_stryder(counted)
        returns == raised = "none"
    IN  /\ cr_pc = "idle"
        /\ total_pickups < MaxPickups
        /\ arb_wood + resources_deposited[FUNGAL_WOOD] <= MaxArbWood
        /\ cr_pc' = "done"
        /\ cr_raised' = raised
        /\ first_pickup' =
               (first_pickup /\ ~Passed(CrystalSteps, "set_hotbar", raised))
        /\ arb_wood' =
               IF stryder_depositing /\ Passed(CrystalSteps, "deposit", raised)
               THEN arb_wood + resources_deposited[FUNGAL_WOOD]
               ELSE arb_wood
        /\ grinding_ready' =
               IF Passed(CrystalSteps, "deposit_items", raised) /\ vault_full
               THEN TRUE
               ELSE grinding_ready
        /\ total_pickups' = IF returns THEN total_pickups + 1 ELSE total_pickups
        /\ total_made' =
               IF returns
               THEN [item \in Items |->
                        total_made[item] + resources_deposited[item]]
               ELSE total_made
        /\ cr_profit' = IF returns THEN resources_deposited ELSE NoGains
        /\ last_completed' =
               IF returns \/ CrystalInTry(raised) THEN now ELSE last_completed
        /\ op' = "CrystalStation.complete"
        /\ UNCHANGED <<stryder_depositing, interval, v_amount, v_result>>
        /\ UNCHANGED <<now, grindVars, ytrapVars, gachaVars, walkVars>>

\* CrystalStation.validate_dust_amount, called with an amount
ValidateDustAmount(amount) ==
    /\ cr_pc = "idle"
    /\ cr_pc' = "validated"
    /\ v_amount' = amount
    /\ v_result' = validate_dust_amount(amount, total_made[DUST],
                                        total_pickups, interval)
    /\ op' = "CrystalStation.validate_dust_amount"
    /\ UNCHANGED <<stryder_depositing, interval, last_completed, first_pickup,
                   total_pickups, total_made, grinding_ready, arb_wood,
                   cr_raised, cr_profit>>
    /\ UNCHANGED <<now, grindVars, ytrapVars, gachaVars, walkVars>>

\* the caller has taken the result of the call
CrystalReturn ==
    /\ cr_pc \in {"done", "validated"}
    /\ cr_pc' = "idle"
    /\ cr_raised' = "none"
    /\ cr_profit' = NoGains
    /\ v_amount' = 0
    /\ v_result' = 0
    /\ op' = "return"
    /\ UNCHANGED <<stryder_depositing, interval, last_completed, first_pickup,
                   total_pickups, total_made, grinding_ready, arb_wood>>
    /\ UNCHANGED <<now, grindVars, ytrapVars, gachaVars, walkVars>>

\* walk_to_dedi gives up when count is more than this
MaxWalkCount == 30

\* what walk_to_dedi leaves alone
WalkFrame ==
    /\ UNCHANGED <<stryder_depositing, interval, last_completed, first_pickup,
                   total_pickups, total_made, grinding_ready, arb_wood,
                   cr_pc, cr_raised, cr_profit, v_amount, v_result>>
    /\ UNCHANGED <<now, grindVars, ytrapVars, gachaVars>>

\* walk_to_dedi is called: count = 0
WalkToDediCall ==
    /\ w_pc = "idle"
    /\ w_pc' = "can_be_opened"
    /\ w_count' = 0
    /\ op' = "walk_to_dedi"
    /\ WalkFrame

\* `while not self.dedi.inventory.can_be_opened()`: opened is what it
\* returns; when the loop is over the inventory is closed and walk_to_dedi
\* returns
WalkWhileNotOpened(opened) ==
    /\ w_pc = "can_be_opened"
    /\ w_pc' = IF opened THEN "accessible" ELSE "can_deposit"
    /\ op' = "walk_to_dedi"
    /\ UNCHANGED w_count
    /\ WalkFrame

\* `while not self.dedi.can_deposit()`: deposit is what it returns; when
\* the inner loop is over the player walks (line 222) and the outer
\* condition is evaluated again
WalkWhileNotDeposit(deposit) ==
    /\ w_pc = "can_deposit"
    /\ w_pc' = IF deposit THEN "walk" ELSE "walk_and_count"
    /\ op' = "walk_to_dedi"
    /\ UNCHANGED w_count
    /\ WalkFrame

\* the body of the inner loop: walk, count += 1 and the test of count
WalkAndCount ==
    /\ w_pc = "walk_and_count"
    /\ w_count' = w_count + 1
    /\ w_pc' = IF w_count + 1 > MaxWalkCount
               THEN "DediNotInRangeError"
               ELSE "can_deposit"
    /\ op' = "walk_to_dedi"
    /\ WalkFrame

\* `self.player.walk("w", 1)` of the outer loop: count is not touched
WalkOn ==
    /\ w_pc = "walk"
    /\ w_pc' = "can_be_opened"
    /\ op' = "walk_to_dedi"
    /\ UNCHANGED w_count
    /\ WalkFrame

\* walk_to_dedi is over, by return or by DediNotInRangeError
WalkToDediOver == w_pc \in {"accessible", "DediNotInRangeError"}

WalkToDediReturn ==
    /\ WalkToDediOver
    /\ w_pc' = "idle"
    /\ w_count' = 0
    /\ op' = "return"
    /\ WalkFrame

----------------------------------------------------------------------------
(* YTrapStation                                                            *)
(* The module names Y_TRAP, PELLET and YTrapStatistics without importing   *)
(* them; they are read as the items and the statistics class they name.    *)

\* len(self.station_data.beds)
NumBeds == 3

\* laps are counted up to MaxLaps
MaxLaps == 2

\* Y-traps are counted up to MaxYTraps
MaxYTraps == 2800

\* what count_item(Y_TRAP) returns in the runs of load_gacha
YTrapStacks == {0, 40, 60}

\* what get_amount_transferred returns in the runs of load_gacha
TransferredAmounts == {300, 799, 900}

\* the steps of complete that act on the game, in order
YTrapSteps == <<"spawn", "take_pellets", "crop_plots", "load_gacha">>

\* complete: spawn is called before the try statement is entered
YTrapInTry(step) == step # "spawn"

\* a plausible slip: the cursor is not looked at
check_refill_lap_at_any_bed(bed, time, refilled) ==
    (time - refilled) > 24 * 3600

\* check_refill_lap: whether a refill lap is due
check_refill_lap(bed, time, refilled) ==
    bed = 0 /\ (time - refilled) > 24 * 3600

\* a plausible slip: the cursor compared with the number of beds
check_lap_finished_past_last_bed(bed, refill, refilled, lap, time) ==
    IF bed < NumBeds
    THEN [current_bed |-> bed + 1, refill_lap |-> refill,
          last_refilled_pellets |-> refilled, current_lap |-> lap]
    ELSE [current_bed |-> 0, refill_lap |-> FALSE,
          last_refilled_pellets |-> IF refill THEN time ELSE refilled,
          current_lap |-> lap + 1]

\* check_lap_finished: the fields of the station after it
check_lap_finished(bed, refill, refilled, lap, time) ==
    IF bed < NumBeds - 1
    THEN [current_bed |-> bed + 1, refill_lap |-> refill,
          last_refilled_pellets |-> refilled, current_lap |-> lap]
    ELSE [current_bed |-> 0, refill_lap |-> FALSE,
          last_refilled_pellets |-> IF refill THEN time ELSE refilled,
          current_lap |-> lap + 1]

\* a plausible slip: the ends of the interval taken as valid readings
load_gacha_with_closed_interval(stacks, transferred) ==
    LET ocr_amount == stacks * 10 > 400
        amount_of_traps == IF ocr_amount THEN transferred ELSE stacks * 10
    IN  IF 400 <= amount_of_traps /\ amount_of_traps <= 800
        THEN amount_of_traps
        ELSE IF ocr_amount THEN 600 ELSE amount_of_traps

\* load_gacha: the Y-traps it reports, from the stacks counted and the
\* amount read after the transfer
load_gacha(stacks, transferred) ==
    LET ocr_amount == stacks * 10 > 400
        amount_of_traps == IF ocr_amount THEN transferred ELSE stacks * 10
    IN  IF 400 < amount_of_traps /\ amount_of_traps < 800
        THEN amount_of_traps
        ELSE IF ocr_amount THEN 600 ELSE amount_of_traps

NoYTrapStats == [refill_lap |-> FALSE, profit |-> 0]

\* no call of load_gacha is being looked at
NoLoadGacha ==
    /\ lg_stacks = 0
    /\ lg_transferred = 0
    /\ lg_amount = 0

NoYTrapCall ==
    /\ yt_pc = "idle"
    /\ yt_raised = "none"
    /\ yt_stats = NoYTrapStats
    /\ NoLoadGacha

\* YTrapStation.__init__, and the fields Station gives it
YTrapInit ==
    /\ yt_current_bed = 0
    /\ refill_lap \in BOOLEAN
    /\ current_lap = 0
    /\ last_refilled_pellets = now
    /\ total_ytraps_deposited = 0
    /\ NoYTrapCall

\* YTrapStation.complete, the whole call: raised is the first step that
\* raises ("none": no step does), stacks and transferred are what the
\* inventory shows while the gacha is loaded
YTrapComplete(raised, stacks, transferred) ==
    LET refill == IF refill_lap THEN TRUE
                  ELSE check_refill_lap(yt_current_bed, now,
                                        last_refilled_pellets)
        added_traps == load_gacha(stacks, transferred)
        returns == raised = "none"
        after == check_lap_finished(yt_current_bed, refill,
                                    last_refilled_pellets, current_lap, now)
    IN  /\ yt_pc = "idle"
        /\ raised = "take_pellets" => refill
        /\ returns => total_ytraps_deposited + added_traps <= MaxYTraps
        /\ current_lap < MaxLaps
        /\ yt_pc' = "done"
        /\ yt_raised' = raised
        /\ IF returns \/ YTrapInTry(raised)
           THEN /\ yt_current_bed' = after.current_bed
                /\ refill_lap' = after.refill_lap
                /\ last_refilled_pellets' = after.last_refilled_pellets
                /\ current_lap' = after.current_lap
           ELSE UNCHANGED <<yt_current_bed, refill_lap,
                            last_refilled_pellets, current_lap>>
        /\ total_ytraps_deposited' =
               IF returns
               THEN total_ytraps_deposited + added_traps
               ELSE total_ytraps_deposited
        /\ yt_stats' =
               IF returns
               THEN [refill_lap |-> refill, profit |-> added_traps]
               ELSE NoYTrapStats
        /\ op' = "YTrapStation.complete"
        /\ UNCHANGED <<now, grindVars, crystalVars, gachaVars, loadVars>>

\* the caller has taken the result of the call
YTrapReturn ==
    /\ yt_pc = "done"
    /\ yt_pc' = "idle"
    /\ yt_raised' = "none"
    /\ yt_stats' = NoYTrapStats
    /\ op' = "return"
    /\ UNCHANGED <<yt_current_bed, refill_lap, current_lap,
                   last_refilled_pellets, total_ytraps_deposited>>
    /\ UNCHANGED <<now, grindVars, crystalVars, gachaVars, loadVars>>

\* what count_item(Y_TRAP) returns when load_gacha is looked at alone: up
\* to 10 stacks past the 40 that make 400 Y-traps
LoadStacks == 0 .. 50

\* what get_amount_transferred returns when load_gacha is looked at alone
LoadTransferred == {0, 399, 400, 401, 600, 799, 800, 801, 5000}

\* YTrapStation.load_gacha, the whole call
LoadGachaCall(stacks, transferred) ==
    /\ yt_pc = "idle"
    /\ yt_pc' = "loaded"
    /\ lg_stacks' = stacks
    /\ lg_transferred' = transferred
    /\ lg_amount' = load_gacha(stacks, transferred)
    /\ op' = "load_gacha"
    /\ UNCHANGED <<yt_current_bed, refill_lap, current_lap,
                   last_refilled_pellets, total_ytraps_deposited,
                   yt_raised, yt_stats>>
    /\ UNCHANGED <<now, grindVars, crystalVars, gachaVars>>

\* the caller has taken the amount
LoadGachaReturn ==
    /\ yt_pc = "loaded"
    /\ yt_pc' = "idle"
    /\ lg_stacks' = 0
    /\ lg_transferred' = 0
    /\ lg_amount' = 0
    /\ op' = "return"
    /\ UNCHANGED <<yt_current_bed, refill_lap, current_lap,
                   last_refilled_pellets, total_ytraps_deposited,
                   yt_raised, yt_stats>>
    /\ UNCHANGED <<now, grindVars, crystalVars, gachaVars>>

----------------------------------------------------------------------------
(* GachaBot                                                                *)

\* self.tower_settings.seed_beds, the length of self.seed_beds
NumSeedBeds == 2

\* len(self.crystal_beds)
NumCrystalBeds == 2

\* laps are counted up to MaxGachaLaps
MaxGachaLaps == 2

\* Y-traps are counted up to MaxGachaYTraps
MaxGachaYTraps == 2020

\* what player.load_gacha returns in the runs of do_gacha_station
GachaStacks == {0, 100, 101}

\* self.tower_settings.crystal_interval, in seconds
GachaCrystalInterval == TickSeconds

\* do_next_task asks for more than this many Y-traps before crystals
YTrapsBeforePickup == 2000

\* crystals_need_pickup
crystals_need_pickup(time, emptied) == (time - emptied) > GachaCrystalInterval

CrystalTaskReady_whatever_deposited(time, emptied, deposited) ==
    crystals_need_pickup(time, emptied)

\* do_next_task: the condition of the crystal branch
CrystalTaskReady(time, emptied, deposited) ==
    crystals_need_pickup(time, emptied) /\ deposited > YTrapsBeforePickup

AfterCrystalBeds_seeding == "gacha"

\* do_next_task: the crystal branch ends with a return
AfterCrystalBeds == "done"

\* the steps of go_heal that may raise, in order
HealSteps == <<"travel_to", "inform_healed_up">>

\* the steps of do_crystal_station, in order
CrystalCollectionSteps ==
    <<"travel_to", "pick_crystals", "open_crystals", "deposit_dedis",
      "deposit_items", "inform_resources_deposited">>

\* the steps of do_gacha_station, in order; travel_to is outside its try
\* statement
GachaSteps ==
    <<"travel_to", "take_pellets", "crop_plots", "load_gacha",
      "inform_station_finished">>

\* what do_gacha_station tells apart among the exceptions of its try body
GachaExceptions ==
    {"TerminatedException", "InventoryNotAccessibleError", "Exception"}

\* what a step of do_gacha_station may raise: sending the statistics calls
\* nothing of the bot or of the game, so it raises neither a termination nor
\* an inaccessible inventory
GachaMayRaise(step) ==
    IF step = "inform_station_finished" THEN {"Exception"}
    ELSE GachaExceptions

\* the beds by name: seed beds from 0, crystal beds from 1, the tek pod
SeedBed(n) == <<"seed", n>>
CrystalBed(n) == <<"crystal", n>>
TekPod == <<"pod", 0>>

\* a message to discord about the station at a bed
Notice(kind, bed) == [kind |-> kind, bed |-> bed]

GachaHandler_unknown_only(exception, bed) ==
    IF exception = "Exception"
    THEN <<Notice("unknown_exception", bed)>>
    ELSE <<>>

GachaHandler_reporting_every_exception(exception, bed) ==
    IF exception = "InventoryNotAccessibleError"
    THEN <<Notice("gacha_not_accessible", bed)>>
    ELSE <<Notice("unknown_exception", bed)>>

\* do_gacha_station: the notification of the handler of an exception
GachaHandler(exception, bed) ==
    IF exception = "TerminatedException" THEN <<>>
    ELSE IF exception = "InventoryNotAccessibleError"
         THEN <<Notice("gacha_not_accessible", bed)>>
         ELSE <<Notice("unknown_exception", bed)>>

\* go_heal tries to enter the tek pod this many times
EnterAttempts == 3

\* the notifications that come with a picture of the screen
ScreenKinds == {"unknown_exception", "gacha_not_accessible"}

\* the path each of them hands to grab_screen
TempFile(kind) ==
    IF kind = "unknown_exception"
    THEN "temp/unknown_error.png"
    ELSE "temp/access_error.png"

TempFiles == {TempFile(kind) : kind \in ScreenKinds}

\* ArkBot.grab_screen(region, path) writes the screen to path; what it
\* returns is what get_dedi_screenshot returns and find_all_dedi_positions
\* hands to Image.open: the path
grab_screen(file) == file

\* a thread `Thread(target=self.send_to_discord, args=(..., file, ...))`;
\* taken is the number of the screen grabbed for it
Worker(file, taken) == [file |-> file, taken |-> taken]

\* the picture a thread posts when it runs: what its file holds then
Posted(worker) == temp[worker.file]

\* no thread has run yet
NoPost == [taken |-> 0, picture |-> 0]

\* screens grabbed for notifications are counted up to MaxCaptures
MaxCaptures == 3

\* what tek_pod.enter returns at each attempt, in the runs of go_heal
EnterResults == [1..EnterAttempts -> BOOLEAN]

RECURSIVE HealLoop_without_return(_, _, _)
HealLoop_without_return(entered, k, so_far) ==
    IF k > EnterAttempts
    THEN [so_far EXCEPT !.accessible = so_far.heals > 0]
    ELSE HealLoop_without_return(
             entered, k + 1,
             [so_far EXCEPT !.enters = @ + 1,
                            !.heals = IF entered[k] THEN @ + 1 ELSE @])

\* go_heal: the loop from attempt k on: the calls of tek_pod.enter and of
\* tek_pod.heal, and whether the pod let the player in
RECURSIVE HealLoop(_, _, _)
HealLoop(entered, k, so_far) ==
    IF k > EnterAttempts THEN [so_far EXCEPT !.accessible = FALSE]
    ELSE IF ~entered[k]
         THEN HealLoop(entered, k + 1, [so_far EXCEPT !.enters = @ + 1])
         ELSE [enters |-> so_far.enters + 1, heals |-> so_far.heals + 1,
               accessible |-> TRUE]

NoHeal == [enters |-> 0, heals |-> 0, accessible |-> FALSE]

\* the first attempt at which tek_pod.enter returns true, 0 if there is none
FirstEntry(entered) ==
    IF \A k \in 1..EnterAttempts : ~entered[k] THEN 0
    ELSE CHOOSE k \in 1..EnterAttempts :
             entered[k] /\ \A j \in 1..(k - 1) : ~entered[j]

\* what one call of do_next_task has done so far
NoTick ==
    [bed |-> 0, laps |-> 0, lap |-> 0, healed |-> 0, selected |-> FALSE,
     at |-> 0, elapsed |-> 0, deposited |-> 0, crystals |-> <<>>,
     gachas |-> <<>>, caught |-> "none", entry |-> 0, enters |-> 0,
     heals |-> 0, leaves |-> 0, notices |-> <<>>]

NoGachaCall ==
    /\ g_pc = "idle"
    /\ crystal_idx = 1
    /\ g_raised = "none"
    /\ tick = NoTick

\* GachaBot.__init__
GachaInit ==
    /\ ytraps_deposited = 0
    /\ laps_completed = 0
    /\ g_first_pickup = TRUE
    /\ at_pod = FALSE
    /\ last_heal = now
    /\ g_current_bed = 0
    /\ g_current_lap = 0
    /\ last_emptied = now
    /\ NoGachaCall
    /\ captured = 0
    /\ temp = [file \in TempFiles |-> 0]
    /\ workers = {}
    /\ posted = NoPost

\* do_next_task is called; healed is what player.needs_recovery returns
DoNextTaskCall(healed) ==
    /\ g_pc = "idle"
    /\ laps_completed < MaxGachaLaps
    /\ tick' = [NoTick EXCEPT !.bed = g_current_bed,
                              !.laps = laps_completed,
                              !.lap = g_current_lap,
                              !.healed = last_heal]
    /\ IF healed
       THEN /\ g_pc' = "go_heal"
            /\ UNCHANGED at_pod
       ELSE /\ g_pc' = "select"
            /\ at_pod' = FALSE
    /\ op' = "do_next_task"
    /\ UNCHANGED <<ytraps_deposited, laps_completed, g_first_pickup,
                   last_heal, g_current_bed, g_current_lap, last_emptied,
                   crystal_idx, g_raised>>
    /\ UNCHANGED <<now, grindVars, crystalVars, ytrapVars, notifyVars>>

\* go_heal, the whole call, and the assignment of healed to _at_pod after
\* it: raised is the first step that raises, entered is what tek_pod.enter
\* returns at each attempt
GoHeal(raised, entered) ==
    LET loop == HealLoop(entered, 1, NoHeal)
        tried == [tick EXCEPT !.entry = FirstEntry(entered),
                              !.enters = loop.enters,
                              !.heals = loop.heals, !.leaves = loop.heals]
    IN  /\ g_pc = "go_heal"
        /\ IF raised = "travel_to"
           THEN /\ g_pc' = "done"
                /\ g_raised' = "Exception"
                /\ UNCHANGED <<tick, last_heal, at_pod>>
           ELSE IF ~loop.accessible
           THEN /\ g_pc' = "done"
                /\ g_raised' = "TekPodNotAccessibleError"
                /\ tick' = tried
                /\ UNCHANGED <<last_heal, at_pod>>
           ELSE IF raised = "inform_healed_up"
           THEN /\ g_pc' = "done"
                /\ g_raised' = "Exception"
                /\ tick' = tried
                /\ UNCHANGED <<last_heal, at_pod>>
           ELSE /\ g_pc' = "select"
                /\ tick' = [tried EXCEPT
                               !.notices = Append(@, Notice("healed_up",
                                                            TekPod))]
                /\ last_heal' = now
                /\ at_pod' = TRUE
                /\ UNCHANGED g_raised
        /\ op' = "go_heal"
        /\ UNCHANGED <<ytraps_deposited, laps_completed, g_first_pickup,
                       g_current_bed, g_current_lap, last_emptied,
                       crystal_idx>>
        /\ UNCHANGED <<now, grindVars, crystalVars, ytrapVars, notifyVars>>

\* do_next_task: the choice between the crystal branch and gacha seeding
SelectTask ==
    /\ g_pc = "select"
    /\ tick' = [tick EXCEPT !.selected = TRUE,
                            !.at = now,
                            !.elapsed = now - last_emptied,
                            !.deposited = ytraps_deposited]
    /\ g_pc' = IF CrystalTaskReady(now, last_emptied, ytraps_deposited)
               THEN "crystal"
               ELSE "gacha"
    /\ crystal_idx' = 1
    /\ op' = "do_next_task"
    /\ UNCHANGED <<ytraps_deposited, laps_completed, g_first_pickup, at_pod,
                   last_heal, g_current_bed, g_current_lap, last_emptied,
                   g_raised>>
    /\ UNCHANGED <<now, grindVars, crystalVars, ytrapVars, notifyVars>>

\* do_crystal_station for the next of crystal_beds, the whole call: raised
\* is the first step that raises; what it raises leaves do_next_task
DoCrystalStation(raised) ==
    /\ g_pc = "crystal"
    /\ crystal_idx <= NumCrystalBeds
    /\ tick' = [tick EXCEPT
                   !.crystals = Append(@, crystal_idx),
                   !.notices = IF raised = "none"
                               THEN Append(@, Notice("resources_deposited",
                                                     CrystalBed(crystal_idx)))
                               ELSE @]
    /\ g_first_pickup' =
           (g_first_pickup
               /\ ~Passed(CrystalCollectionSteps, "deposit_dedis", raised))
    /\ IF raised = "none"
       THEN /\ crystal_idx' = crystal_idx + 1
            /\ UNCHANGED <<g_pc, g_raised>>
       ELSE /\ g_pc' = "done"
            /\ g_raised' = "Exception"
            /\ UNCHANGED crystal_idx
    /\ op' = "do_crystal_station"
    /\ UNCHANGED <<ytraps_deposited, laps_completed, at_pod, last_heal,
                   g_current_bed, g_current_lap, last_emptied>>
    /\ UNCHANGED <<now, grindVars, crystalVars, ytrapVars, notifyVars>>

\* do_next_task: after the last of crystal_beds
CrystalBedsDone ==
    /\ g_pc = "crystal"
    /\ crystal_idx > NumCrystalBeds
    /\ last_emptied' = now
    /\ g_pc' = AfterCrystalBeds
    /\ op' = "do_next_task"
    /\ UNCHANGED <<ytraps_deposited, laps_completed, g_first_pickup, at_pod,
                   last_heal, g_current_bed, g_current_lap, crystal_idx,
                   g_raised, tick>>
    /\ UNCHANGED <<now, grindVars, crystalVars, ytrapVars, notifyVars>>

\* do_gacha_station for the bed of the cursor, the whole call: raised is
\* the first step that raises, with exception; added_traps is what
\* load_gacha returns
DoGachaStation(raised, exception, added_traps) ==
    LET loaded == Passed(GachaSteps, "load_gacha", raised)
        bed == SeedBed(g_current_bed)
        caught == IF raised \in {"none", "travel_to"} THEN "none"
                  ELSE exception
        notice == IF raised = "none"
                  THEN <<Notice("station_finished", bed)>>
                  ELSE IF raised = "travel_to" THEN <<>>
                  ELSE GachaHandler(exception, bed)
    IN  /\ g_pc = "gacha"
        /\ exception \in IF raised = "none" THEN {"Exception"}
                          ELSE GachaMayRaise(raised)
        /\ raised = "take_pellets" => laps_completed = 0
        /\ loaded => ytraps_deposited + added_traps * 10 <= MaxGachaYTraps
        /\ tick' = [tick EXCEPT !.gachas = Append(@, g_current_bed),
                                !.caught = caught,
                                !.notices = @ \o notice]
        /\ ytraps_deposited' =
               IF loaded
               THEN ytraps_deposited + added_traps * 10
               ELSE ytraps_deposited
        /\ IF raised = "travel_to"
           THEN /\ g_pc' = "done"
                /\ g_raised' = exception
           ELSE /\ g_pc' = "advance"
                /\ UNCHANGED g_raised
        /\ op' = "do_gacha_station"
        /\ UNCHANGED <<laps_completed, g_first_pickup, at_pod, last_heal,
                       g_current_bed, g_current_lap, last_emptied,
                       crystal_idx>>
        /\ UNCHANGED <<now, grindVars, crystalVars, ytrapVars, notifyVars>>

\* do_next_task: the bed counter after gacha seeding
AdvanceBed ==
    /\ g_pc = "advance"
    /\ IF g_current_bed < NumSeedBeds - 1
       THEN /\ g_current_bed' = g_current_bed + 1
            /\ UNCHANGED <<laps_completed, g_current_lap>>
       ELSE /\ g_current_bed' = 0
            /\ laps_completed' = laps_completed + 1
            /\ g_current_lap' = g_current_lap + 1
    /\ g_pc' = "done"
    /\ op' = "do_next_task"
    /\ UNCHANGED <<ytraps_deposited, g_first_pickup, at_pod, last_heal,
                   last_emptied, crystal_idx, g_raised, tick>>
    /\ UNCHANGED <<now, grindVars, crystalVars, ytrapVars, notifyVars>>

\* the driver has the outcome of do_next_task
DoNextTaskReturn ==
    /\ g_pc = "done"
    /\ g_pc' = "idle"
    /\ crystal_idx' = 1
    /\ g_raised' = "none"
    /\ tick' = NoTick
    /\ op' = "return"
    /\ UNCHANGED <<ytraps_deposited, laps_completed, g_first_pickup, at_pod,
                   last_heal, g_current_bed, g_current_lap, last_emptied>>
    /\ UNCHANGED <<now, grindVars, crystalVars, ytrapVars, notifyVars>>

----------------------------------------------------------------------------
(* Notifications with a picture of the screen                              *)
(* do_gacha_station calls inform_gacha_not_accessible or                   *)
(* inform_unknown_exception from its handlers (the notices of              *)
(* GachaHandler); each grabs the screen on the thread of the bot and       *)
(* starts a thread that runs send_to_discord.                              *)

\* the construction and the start of the Thread in inform_unknown_exception
\* and in inform_gacha_not_accessible: the arguments are evaluated first,
\* grab_screen among them, on the calling thread
PostWithScreen(kind) ==
    LET file == TempFile(kind) IN
    /\ captured < MaxCaptures
    /\ captured' = captured + 1
    /\ temp' = [temp EXCEPT ![file] = captured + 1]
    /\ workers' = workers \cup {Worker(grab_screen(file), captured + 1)}
    /\ UNCHANGED posted
    /\ UNCHANGED <<ytraps_deposited, laps_completed, g_first_pickup, at_pod,
                   last_heal, g_current_bed, g_current_lap, last_emptied,
                   g_pc, crystal_idx, g_raised, tick>>
    /\ UNCHANGED <<now, grindVars, crystalVars, ytrapVars>>

InformUnknownException ==
    /\ PostWithScreen("unknown_exception")
    /\ op' = "inform_unknown_exception"

InformGachaNotAccessible ==
    /\ PostWithScreen("gacha_not_accessible")
    /\ op' = "inform_gacha_not_accessible"

\* a thread started by one of them runs send_to_discord and ends
SendToDiscord ==
    /\ \E worker \in workers :
          /\ workers' = workers \ {worker}
          /\ posted' = [taken |-> worker.taken, picture |-> Posted(worker)]
    /\ op' = "send_to_discord"
    /\ UNCHANGED <<captured, temp>>
    /\ UNCHANGED <<ytraps_deposited, laps_completed, g_first_pickup, at_pod,
                   last_heal, g_current_bed, g_current_lap, last_emptied,
                   g_pc, crystal_idx, g_raised, tick>>
    /\ UNCHANGED <<now, grindVars, crystalVars, ytrapVars>>

----------------------------------------------------------------------------
(* Time                                                                    *)

\* time passes
Tick ==
    /\ now < MaxTicks * TickSeconds
    /\ now' = now + TickSeconds
    /\ op' = "time"
    /\ UNCHANGED <<grindVars, crystalVars, ytrapVars, gachaVars>>

----------------------------------------------------------------------------
(* Specifications                                                          *)

NoCall ==
    /\ pc = "idle"
    /\ NoTurnTo
    /\ NoGetDediMaterials
    /\ NoGetAmountTurret
    /\ op = "__init__"

\* the stations and the gacha bot, constructed when the clock starts, in
\* either mode of depositing, in a refill lap or not
Constructed ==
    /\ now = 0
    /\ CrystalInit
    /\ YTrapInit
    /\ GachaInit

\* GrindBot.__init__
Init ==
    /\ station_turns = StationTurns
    /\ current_station = HomeStation
    /\ NoCall
    /\ Constructed
    /\ ~stryder_depositing
    /\ ~refill_lap

TurnTo ==
    \/ \E t \in StationSet(station_turns) : TurnToCall(t)
    \/ TurnToStation
    \/ TurnToIssue
    \/ TurnToReturn

GetDediMaterials ==
    \/ GetDediMaterialsCall
    \/ \E located \in SUBSET DediNames : GdmAttempt(located)
    \/ \E raw \in RawResults : GdmOcr(raw)
    \/ GdmExhausted
    \/ GdmExit

Next ==
    \/ TurnTo
    \/ \E turn \in BOOLEAN : ResyncToVault(turn)
    \/ GetDediMaterials

Spec == Init /\ [][Next]_vars

\* get_amount_turret alone, on the amounts of OwnedAmounts
NextTurret ==
    \/ \E owned \in OwnedAmounts : GetAmountTurretCall(owned)
    \/ GetAmountTurretReturn

SpecTurret == Init /\ [][NextTurret]_vars

\* The navigator on every ring that is a prefix of the recorded one, from
\* every waypoint of it: find_quickest_way_to and turn_to as functions of
\* (ring, current, target).
RingPrefixes == {SubSeq(StationTurns, 1, n) : n \in 1..Len(StationTurns)}

InitRing ==
    /\ station_turns \in RingPrefixes
    /\ current_station \in StationSet(station_turns)
    /\ NoCall
    /\ Constructed
    /\ ~stryder_depositing
    /\ ~refill_lap

NextRing == TurnTo

SpecRing == InitRing /\ [][NextRing]_vars

\* turn_to takes any name its caller writes: on a ring that is a prefix of
\* the recorded one, some of the recorded names are not on the ring
TurnToUnknown ==
    \E t \in StationSet(StationTurns) \ StationSet(station_turns) :
        TurnToCall(t)

NextAnyTarget ==
    \/ TurnTo
    \/ TurnToUnknown

SpecAnyTarget == InitRing /\ [][NextAnyTarget]_vars

\* CrystalStation alone: its completions and validations as time passes
CrystalCall ==
    \/ \E raised \in Range(CrystalSteps) \cup {"none"},
          deposited \in DedisRuns, counted \in StryderRuns,
          vault_full \in BOOLEAN :
            CrystalComplete(raised, deposited, counted, vault_full)
    \/ \E amount \in DustAmounts
                      \cup {average_amount(total_made[DUST], total_pickups,
                                           interval)} :
            ValidateDustAmount(amount)
    \/ CrystalReturn

NextCrystal ==
    \/ CrystalCall
    \/ Tick

InitCrystal ==
    /\ station_turns = StationTurns
    /\ current_station = HomeStation
    /\ NoCall
    /\ Constructed
    /\ ~refill_lap

SpecCrystal == InitCrystal /\ [][NextCrystal]_vars

\* walk_to_dedi alone, for every answer of the game to can_be_opened and
\* can_deposit.  The thread of the bot does not stop by itself: a step of
\* walk_to_dedi that can be taken is taken.
WalkToDedi ==
    \/ WalkToDediCall
    \/ \E opened \in BOOLEAN : WalkWhileNotOpened(opened)
    \/ \E deposit \in BOOLEAN : WalkWhileNotDeposit(deposit)
    \/ WalkAndCount
    \/ WalkOn
    \/ WalkToDediReturn

SpecWalk == InitCrystal /\ [][WalkToDedi]_vars /\ WF_vars(WalkToDedi)

\* YTrapStation alone: its completions as time passes
YTrapCall ==
    \/ \E raised \in Range(YTrapSteps) \cup {"none"},
          stacks \in YTrapStacks, transferred \in TransferredAmounts :
            YTrapComplete(raised, stacks, transferred)
    \/ YTrapReturn

NextYTrap ==
    \/ YTrapCall
    \/ Tick

InitYTrap ==
    /\ station_turns = StationTurns
    /\ current_station = HomeStation
    /\ NoCall
    /\ Constructed
    /\ ~stryder_depositing

SpecYTrap == InitYTrap /\ [][NextYTrap]_vars

\* load_gacha alone, on every inventory of LoadStacks and LoadTransferred
NextLoadGacha ==
    \/ \E stacks \in LoadStacks, transferred \in LoadTransferred :
            LoadGachaCall(stacks, transferred)
    \/ LoadGachaReturn

SpecLoadGacha == InitYTrap /\ [][NextLoadGacha]_vars

\* GachaBot alone: calls of do_next_task as time passes
DoNextTask ==
    \/ \E healed \in BOOLEAN : DoNextTaskCall(healed)
    \/ \E raised \in Range(HealSteps) \cup {"none"},
          entered \in EnterResults :
            GoHeal(raised, entered)
    \/ SelectTask
    \/ \E raised \in Range(CrystalCollectionSteps) \cup {"none"} :
            DoCrystalStation(raised)
    \/ CrystalBedsDone
    \/ \E raised \in Range(GachaSteps) \cup {"none"},
          exception \in GachaExceptions, added_traps \in GachaStacks :
            DoGachaStation(raised, exception, added_traps)
    \/ AdvanceBed
    \/ DoNextTaskReturn

NextGacha ==
    \/ DoNextTask
    \/ Tick

SpecGacha == Init /\ [][NextGacha]_vars

\* the two bed cursors side by side: GachaBot seeding its beds and a
\* YTrapStation completing its own, with empty crop plots and at one time
NextLaps ==
    \/ \E healed \in BOOLEAN : DoNextTaskCall(healed)
    \/ \E raised \in Range(HealSteps) \cup {"none"},
          entered \in EnterResults :
            GoHeal(raised, entered)
    \/ SelectTask
    \/ \E raised \in Range(GachaSteps) \cup {"none"},
          exception \in GachaExceptions :
            DoGachaStation(raised, exception, 0)
    \/ AdvanceBed
    \/ DoNextTaskReturn
    \/ \E raised \in Range(YTrapSteps) \cup {"none"} :
            YTrapComplete(raised, 0, 0)
    \/ YTrapReturn

SpecLaps == Init /\ [][NextLaps]_vars

\* the notifications with a picture alone: failures of gacha stations, one
\* after the other, and the threads they start
NextNotify ==
    \/ InformUnknownException
    \/ InformGachaNotAccessible
    \/ SendToDiscord

SpecNotify == Init /\ [][NextNotify]_vars

----------------------------------------------------------------------------
(* Properties of the navigator                                             *)

InTurnTo == pc \in {"for_station", "issue_turn", "returned", "hung"}

RingSize == Len(station_turns)

IndexOf(station) ==
    CHOOSE k \in 1..RingSize : station_turns[k].name = station

RECURSIVE SumOnAxis(_, _)
SumOnAxis(turns, axis) ==
    IF turns = <<>> THEN 0
    ELSE (IF turns[1].axis = axis THEN turns[1].by ELSE 0)
         + SumOnAxis(Tail(turns), axis)

\* the recorded deltas of the ring entries at positions from + 1 .. from + n,
\* counted round the ring
RECURSIVE SumAfter(_, _, _)
SumAfter(from, n, axis) ==
    IF n = 0 THEN 0
    ELSE SumOnAxis(station_turns[(from % RingSize) + 1].turns, axis)
         + SumAfter(from + 1, n - 1, axis)

\* one full cycle
RingTotal(axis) == SumAfter(0, RingSize, axis)

\* hops from the start of the call to its target, going forward / backward
ForwardHops == (IndexOf(target) - IndexOf(start)) % RingSize
BackwardHops == (IndexOf(start) - IndexOf(target)) % RingSize

Abs(n) == IF n < 0 THEN -n ELSE n

Congruent(a, b, m) == IF m = 0 THEN a = b ELSE (a - b) % Abs(m) = 0

\* C1: when turn_to returns, the turns it issued, summed per axis, equal the
\* sum of the recorded deltas of the waypoints strictly after the starting
\* waypoint up to and including the target, modulo the total of one cycle
\* on that axis.
C1_NetRotationReachesTarget ==
    pc = "returned" =>
        \A axis \in Axes :
            Congruent(SumOnAxis(issued, axis),
                      SumAfter(IndexOf(start), ForwardHops, axis),
                      RingTotal(axis))

\* a backward traversal that has returned after turning on both axes
C1_Witness ==
    /\ pc = "returned"
    /\ direction = "backwards"
    /\ SumOnAxis(issued, "x") # 0
    /\ SumOnAxis(issued, "y") # 0
    /\ SumOnAxis(issued, "x") # SumAfter(IndexOf(start), ForwardHops, "x")

\* C2: on every ring of N waypoints and for every (current, target) the
\* path returned by find_quickest_way_to has at most ceil(N/2) entries.
C2_PathAtMostHalfRing ==
    InTurnTo => Len(path) <= (RingSize + 1) \div 2

\* a backward path of exactly ceil(N/2) entries on a ring of odd size
C2_Witness ==
    /\ pc = "returned"
    /\ direction = "backwards"
    /\ RingSize % 2 = 1
    /\ RingSize >= 3
    /\ Len(path) = (RingSize + 1) \div 2

\* C3: find_quickest_way_to returns the direction with strictly fewer ring
\* hops from current to target, and the forward direction when the hop
\* counts are equal.
C3_FewerHopsTieForward ==
    (InTurnTo /\ target # start) =>
        /\ ForwardHops < BackwardHops => direction = "forward"
        /\ BackwardHops < ForwardHops => direction = "backwards"
        /\ ForwardHops = BackwardHops => direction = "forward"

\* the target diametrically opposite on an even-sized ring
C3_Witness ==
    /\ pc = "returned"
    /\ target # start
    /\ ForwardHops = BackwardHops
    /\ direction = "forward"

\* C4: with the target equal to the current waypoint find_quickest_way_to
\* returns the empty path and "stay", turn_to issues no turn and
\* current_station is unchanged.
C4_StayIsNoOp ==
    (InTurnTo /\ target = start) =>
        /\ pc \in {"for_station", "returned"}
        /\ path = <<>>
        /\ direction = "stay"
        /\ issued = <<>>
        /\ current_station = start

C4_Witness ==
    /\ pc = "returned"
    /\ op = "turn_to"
    /\ target = start
    /\ start # HomeStation

RECURSIVE TurnsAlong(_, _)
TurnsAlong(waypoints, sign) ==
    IF waypoints = <<>> THEN <<>>
    ELSE LET recorded == TurnsOf(station_turns, waypoints[1]) IN
         [k \in 1..Len(recorded) |->
             Turn(recorded[k].axis, sign * recorded[k].by)]
         \o TurnsAlong(Tail(waypoints), sign)

\* C5: the turns of a forward traversal are the recorded deltas of the path
\* waypoints, unmodified and in path order; the turns of a backward
\* traversal are recorded deltas with the opposite sign, in the order in
\* which the backward path visits the waypoints (all the deltas of a
\* waypoint that records several), the target's own deltas not being issued.
C5_ForwardAsRecordedBackwardNegated ==
    pc = "returned" =>
        /\ direction = "forward" => issued = TurnsAlong(path, 1)
        /\ direction = "backwards" =>
               issued = TurnsAlong(SubSeq(path, 1, Len(path) - 1), -1)

\* a backward traversal through the waypoint that records two turns
C5_Witness ==
    /\ pc = "returned"
    /\ direction = "backwards"
    /\ \E k \in 1..(Len(path) - 1) : Len(TurnsOf(station_turns, path[k])) > 1
    /\ Len(issued) > 2

\* C6: while a turn of the path is still pending current_station names the
\* starting waypoint, and once turn_to returns it names the target.
C6_StationUpdatedAfterAllTurns ==
    /\ pc = "issue_turn" => current_station = start
    /\ pc = "returned" => current_station = target

\* C7 as stated: current_station is changed only by turn_to.
C7_OnlyTurnToChangesStation ==
    [][current_station' # current_station => op' = "turn_to"]_vars

\* C7: current_station is changed only by turn_to and by resync_to_vault,
\* which sets it to "Gear Vault" or "Electronics", also when it is called by
\* get_dedi_screenshot in an attempt of get_dedi_materials.
C7_TurnToAndResyncChangeStation ==
    [][current_station' # current_station =>
          \/ op' = "turn_to"
          \/ /\ op' = "resync_to_vault"
             /\ current_station' \in {"Gear Vault", "Electronics"}
          \/ /\ op' = "get_dedi_materials"
             /\ pc = "gdm_attempt"
             /\ current_station' = "Electronics"]_vars

\* the first screenshot of get_dedi_materials has left the bot at Electronics
C7_Witness ==
    /\ op = "get_dedi_materials"
    /\ captures = 1
    /\ current_station = "Electronics"

\* turn_90_degrees
QuarterTurn == 90

FullRotation == 4 * QuarterTurn

\* C8: every ring in use is closed: its recorded deltas, summed per axis
\* round the whole cycle, amount to full rotations.
C8_RingInUseIsClosed ==
    \A axis \in Axes : RingTotal(axis) % FullRotation = 0

----------------------------------------------------------------------------
(* Properties of the dedi wall reader                                      *)

\* C9: get_dedi_materials takes at most 10 screenshots, returns only from an
\* attempt in which every region was located, and after 10 failed attempts
\* raises DediNotFoundError.
C9_TenAttemptsThenDediNotFound ==
    /\ captures <= MaxAttempts
    /\ (pc = "gdm_done" /\ outcome = "returned") =>
           dedis.images = DediNames /\ captures = i + 1
    /\ (pc = "gdm_done" /\ i = MaxAttempts) => outcome = "DediNotFoundError"

\* C10: whenever get_dedi_materials returns, the keys of the returned
\* mapping are exactly the six requested names.
C10_ReturnedMappingIsComplete ==
    (pc = "gdm_done" /\ outcome = "returned") => DictKeys(amounts) = DediNames

\* a return after an attempt that missed a region
C10_Witness ==
    /\ pc = "gdm_done"
    /\ outcome = "returned"
    /\ i >= 1
    /\ pressed # <<>>

\* C11: every quantity of the returned mapping was read from the screenshot
\* of the attempt that succeeded, none from the screenshot of an earlier,
\* abandoned attempt.
C11_ReadFromSuccessfulAttemptOnly ==
    (pc = "gdm_done" /\ outcome = "returned") =>
        /\ DictKeys(shots) = DictKeys(amounts)
        /\ \A kv \in shots : kv[2] = i + 1

\* a return from the third attempt, after two abandoned ones
C11_Witness ==
    /\ pc = "gdm_done"
    /\ outcome = "returned"
    /\ i = 2
    /\ captures = 3
    /\ amounts # {}

\* C12: a parse failure of the text recognition does not reach the caller of
\* get_dedi_materials: the attempt is abandoned and the next one is made.
C12_ParseFailureIsRetried ==
    pc = "gdm_done" => outcome # "ValueError"

\* C13 as stated: the probing moves strictly alternate between 'w' and 's'.
C13_ProbesStrictlyAlternate ==
    \A k \in 1..(Len(pressed) - 1) : pressed[k] # pressed[k + 1]

\* C13: the probing move after the failed attempt with index n (from 0) is
\* 'w' when n is a multiple of 3 and 's' otherwise: w, s, s, w, s, s, ...
C13_ProbesFollowAttemptModThree ==
    \A k \in 1..Len(pressed) :
        pressed[k] = (IF (k - 1) % 3 = 0 THEN "w" ELSE "s")

\* four failed attempts in a row
C13_Witness ==
    /\ pc = "gdm_attempt"
    /\ Len(pressed) = 4
    /\ pressed[2] = pressed[3]


----------------------------------------------------------------------------
(* Properties of the stations                                              *)

\* the usual dust of one pickup, from the rolling totals of the station
ExpectedDust == average_amount(total_made[DUST], total_pickups, interval)

\* C14: validate_dust_amount returns the raw reading when it lies within
\* [expected - 5000, expected + 10000], expected being the total dust over
\* the total pickups, and returns expected otherwise (totals 6000 over 2
\* pickups: 12000 gives 12000, 50000 gives 3000).
C14_ReadingIsBoundedByExpected ==
    (cr_pc = "validated" /\ total_pickups > 0) =>
        v_result = (IF ExpectedDust - 5000 <= v_amount
                        /\ v_amount <= ExpectedDust + 10000
                    THEN v_amount
                    ELSE ExpectedDust)

\* C15: in every state of the rolling totals, validate_dust_amount of the
\* expected value is the expected value, and validating a validated amount
\* again does not change it.
C15_ExpectedIsFixedAndValidateIdempotent ==
    cr_pc = "validated" =>
        /\ v_amount = ExpectedDust => v_result = ExpectedDust
        /\ validate_dust_amount(v_result, total_made[DUST], total_pickups,
                                interval) = v_result

C15_Witness ==
    /\ cr_pc = "validated"
    /\ total_pickups = 2
    /\ total_made[DUST] = 6000
    /\ v_amount = 3000
    /\ v_result = 3000

\* C16 as stated: a call of do_next_task executes at most one station, a
\* crystal station or a gacha station, however many beds are configured.
C16_AtMostOneStationPerCall ==
    Len(tick.crystals) + Len(tick.gachas) <= 1

\* C16: a call of do_next_task executes either the crystal task, one
\* crystal station for each configured crystal bed in their order (all of
\* them unless one raises), or at most one gacha station, never both.
C16_EveryCrystalBedOrOneGachaStation ==
    /\ tick.crystals = <<>> \/ tick.gachas = <<>>
    /\ Len(tick.gachas) <= 1
    /\ Len(tick.crystals) <= NumCrystalBeds
    /\ \A k \in 1..Len(tick.crystals) : tick.crystals[k] = k
    /\ (g_pc = "done" /\ g_raised = "none" /\ tick.crystals # <<>>) =>
           Len(tick.crystals) = NumCrystalBeds

C16_Witness ==
    /\ g_pc = "done"
    /\ g_raised = "none"
    /\ Len(tick.crystals) = NumCrystalBeds
    /\ NumCrystalBeds > 1

\* the crystal task was ready when do_next_task chose its task
WasCrystalTaskReady ==
    /\ tick.elapsed > GachaCrystalInterval
    /\ tick.deposited > YTrapsBeforePickup

\* C17: when the crystal task is ready (its interval has elapsed and the
\* Y-trap counter has passed its threshold) do_next_task executes the
\* crystal task and no gacha station in that call, and leaves the seed-bed
\* cursor and the lap counters as they were; a gacha station is executed
\* only when the crystal task is not ready.
C17_CrystalTaskBeforeSeeding ==
    (g_pc = "done" /\ tick.selected) =>
        IF WasCrystalTaskReady
        THEN /\ tick.crystals # <<>>
             /\ tick.gachas = <<>>
             /\ g_current_bed = tick.bed
             /\ laps_completed = tick.laps
             /\ g_current_lap = tick.lap
        ELSE /\ tick.crystals = <<>>
             /\ tick.gachas # <<>>

C17_Witness ==
    /\ g_pc = "done"
    /\ tick.selected
    /\ WasCrystalTaskReady
    /\ tick.crystals # <<>>
    /\ tick.bed = 1
    /\ g_current_bed = 1

\* C18: every execution of a Y-trap station moves the bed cursor by exactly
\* one position, to 0 after the last bed, also when the execution fails.
C18_CursorAdvancesAtEveryExecution ==
    [][(yt_pc = "idle" /\ yt_pc' = "done") =>
           yt_current_bed' = (yt_current_bed + 1) % NumBeds]_vars

\* C19: CrystalStation.complete sets station_data.last_completed to the
\* current time on every path out of it, the raising ones included.
C19_LastCompletedSetOnEveryExit ==
    [][(cr_pc = "idle" /\ cr_pc' = "done") => last_completed' = now']_vars

C19_Witness ==
    /\ cr_pc = "done"
    /\ cr_raised = "spawn"
    /\ now > 0
    /\ last_completed = now

\* C20: while total_ytraps_deposited is below 2000, CrystalStation.is_ready
\* is false whatever time has passed; and once the counter has reached 2000
\* no completion, returning or raising, takes it below 2000 again.
C20_YTrapGateIsMonotone ==
    /\ [](total_ytraps_deposited < 2000 =>
              ~is_ready(total_ytraps_deposited, now, last_completed,
                        interval))
    /\ [][total_ytraps_deposited >= 2000 =>
              total_ytraps_deposited' >= 2000]_vars

C20_Witness ==
    /\ yt_pc = "done"
    /\ yt_raised # "none"
    /\ total_ytraps_deposited >= 2000
    /\ is_ready(total_ytraps_deposited, now, last_completed, interval)

----------------------------------------------------------------------------
(* Properties of GachaBot                                                  *)

\* C21: no exception leaves do_next_task: whatever is raised during the
\* call (travelling to the bed, healing at the pod, a crystal station, the
\* body of a gacha station) is handled and the call returns normally.
C21_NoExceptionLeavesDoNextTask ==
    g_pc = "done" => g_raised = "none"

\* the notifications of this call about the seed bed of the cursor
GachaNotices ==
    {k \in 1..Len(tick.notices) : tick.notices[k].bed = SeedBed(tick.bed)}

\* do_gacha_station has returned to do_next_task
GachaStationReturned ==
    /\ g_pc \in {"advance", "done"}
    /\ g_raised = "none"

RaisedKind(exception) ==
    IF exception = "InventoryNotAccessibleError"
    THEN "gacha_not_accessible"
    ELSE "unknown_exception"

HealedNotices ==
    {k \in 1..Len(tick.notices) : tick.notices[k].kind = "healed_up"}

\* C26: go_heal calls tek_pod.enter at most 3 times.  If an attempt
\* succeeds, the first that does is the last attempt, the player is healed
\* once and leaves the pod once, one healed notification is sent and
\* _last_heal is the time of the call.  If none succeeds, go_heal raises
\* TekPodNotAccessibleError, the player is not healed and _last_heal is
\* what it was.  (Stated for the runs in which the calls go_heal makes
\* return.)
C26_GoHealEntersAtMostThreeTimes ==
    tick.enters > 0 =>
        /\ tick.enters <= 3
        /\ IF tick.entry = 0
           THEN /\ tick.enters = 3
                /\ tick.heals = 0
                /\ tick.leaves = 0
                /\ HealedNotices = {}
                /\ g_raised = "TekPodNotAccessibleError"
                /\ last_heal = tick.healed
           ELSE /\ tick.enters = tick.entry
                /\ tick.heals = 1
                /\ tick.leaves = 1
                /\ g_raised = "Exception" \/ Cardinality(HealedNotices) = 1

\* C26, the clock: a go_heal that returns sets _last_heal to the time of
\* the call; one that raises leaves it as it was.
C26_LastHealIsTheTimeOfTheHeal ==
    [][g_pc = "go_heal" =>
          last_heal' = IF g_pc' = "select" THEN now ELSE last_heal]_vars

C26_GoHeal ==
    /\ []C26_GoHealEntersAtMostThreeTimes
    /\ C26_LastHealIsTheTimeOfTheHeal

C26_Witness ==
    /\ tick.entry = 2
    /\ tick.enters = 2
    /\ tick.heals = 1
    /\ tick.notices = <<Notice("healed_up", TekPod)>>
    /\ last_heal = now
    /\ now > tick.healed
    /\ g_pc = "select"

\* C28: when do_next_task has taken the crystal branch and is over,
\* last_emptied is the time of that call, whether or not a crystal station
\* raised.
C28_LastEmptiedSetWheneverCrystalBranchTaken ==
    (g_pc = "done" /\ tick.crystals # <<>>) => last_emptied >= tick.at

\* a crystal station raised at a time after the last pickup: the clock the
\* next call reads is still the old one
C28_CrystalTaskSelectedAgain ==
    /\ g_pc = "done"
    /\ tick.crystals # <<>>
    /\ g_raised # "none"
    /\ last_emptied < tick.at
    /\ CrystalTaskReady(now, last_emptied, ytraps_deposited)

----------------------------------------------------------------------------
(* More properties of the navigator                                        *)

\* C29: find_quickest_way_to terminates for every current and every target,
\* a target that is not on the ring included: no call is left inside one of
\* its loops.
C29_FindQuickestWayTerminates ==
    pc # "hung"

\* the loop for a target that is not on the ring: after two rounds of the
\* ring the path has grown to a whole ring and the break was never taken
C29_NeverBreaks ==
    /\ pc = "hung"
    /\ target \notin StationSet(station_turns)
    /\ ~forward_path(station_turns, current_station, target).terminated
    /\ Len(forward_path(station_turns, current_station, target).path)
           >= Len(station_turns) - 1

\* for a target on the ring each loop breaks within two rounds of the ring
C29_TargetOnRingTerminates ==
    (InTurnTo /\ target \in StationSet(station_turns)) => pc # "hung"

\* the two candidate paths of the call in progress
ForwardCandidate == forward_path(station_turns, start, target).path
BackwardCandidate == backward_path(station_turns, start, target).path

\* the waypoint after / before the start of the call, round the ring
NextOnRing == station_turns[(IndexOf(start) % RingSize) + 1].name
PreviousOnRing == station_turns[((IndexOf(start) - 2) % RingSize) + 1].name

Occurrences(seq, x) == Cardinality({k \in 1..Len(seq) : seq[k] = x})

StartsAfterCurrent(candidate, after) ==
    /\ candidate # <<>>
    /\ candidate[1] = after
    /\ candidate[Len(candidate)] = target
    /\ Occurrences(candidate, start) = 0

\* C30 as stated: each candidate path starts with the waypoint next to
\* current in its direction, ends with target and does not contain current.
C30_NeitherPathContainsCurrent ==
    (InTurnTo /\ target # start) =>
        /\ StartsAfterCurrent(ForwardCandidate, NextOnRing)
        /\ StartsAfterCurrent(BackwardCandidate, PreviousOnRing)

\* C30: the forward path starts with the waypoint after current, ends with
\* target and does not contain current; the backward path starts with
\* current itself, goes on with the waypoint before it, ends with target
\* and contains current once.
C30_BackwardPathStartsWithCurrent ==
    (InTurnTo /\ target # start) =>
        /\ StartsAfterCurrent(ForwardCandidate, NextOnRing)
        /\ Len(BackwardCandidate) >= 2
        /\ BackwardCandidate[1] = start
        /\ BackwardCandidate[2] = PreviousOnRing
        /\ BackwardCandidate[Len(BackwardCandidate)] = target
        /\ Occurrences(BackwardCandidate, start) = 1

C30_Witness ==
    /\ pc = "returned"
    /\ RingSize = 5
    /\ start = "Grinder"
    /\ target = "Crystal"
    /\ ForwardCandidate = <<"Exo Mek", "Vault", "Crystal">>
    /\ BackwardCandidate = <<"Grinder", "Hide", "Crystal">>
    /\ path = BackwardCandidate

----------------------------------------------------------------------------
(* More properties of the stations                                         *)

CrystalCompletes == cr_pc = "idle" /\ cr_pc' = "done"

\* C27: no step makes _total_pickups or one of the _total_*_made smaller;
\* a call of complete that returns adds one to _total_pickups, one that
\* raises adds nothing.
C27_RollingTotalsNeverDecrease ==
    [][/\ total_pickups' >= total_pickups
       /\ \A item \in Items : total_made'[item] >= total_made[item]
       /\ CrystalCompletes =>
              total_pickups' =
                  total_pickups + (IF cr_raised' = "none" THEN 1 ELSE 0)]_vars

\* a pickup into the stryder with no stack of any item, after two pickups
\* that brought dust
C27_Witness ==
    /\ cr_pc = "done"
    /\ cr_raised = "none"
    /\ stryder_depositing
    /\ cr_profit = NoGains
    /\ total_pickups = 3
    /\ total_made[DUST] = 8000

----------------------------------------------------------------------------
(* Properties of the notifications                                         *)

\* C24: the picture a notification thread posts is the screen grabbed at
\* its own failure, whenever the thread runs.
C24_PostedPictureIsOwnSnapshot ==
    posted.taken # 0 => posted.picture = posted.taken

\* the same while the thread has not run yet: the file it was handed still
\* holds its screen
C24_PendingPictureIsOwnSnapshot ==
    \A worker \in workers : Posted(worker) = worker.taken

\* two failures of the same kind, the thread of the first still pending:
\* it posts the screen of the second
C24_PostsLaterScreen ==
    /\ posted = [taken |-> 1, picture |-> 2]
    /\ temp["temp/unknown_error.png"] = 2
    /\ workers = {Worker("temp/unknown_error.png", 2)}

----------------------------------------------------------------------------
(* Properties of walk_to_dedi                                              *)

\* C25: every call of walk_to_dedi is over at some time, with the dedi
\* accessible or with DediNotInRangeError.
C25_WalkToDediTerminates ==
    (w_pc = "can_be_opened") ~> WalkToDediOver

\* the walks of the inner loop are counted and bounded
C25_CountedWalksAreBounded ==
    /\ w_count <= MaxWalkCount + 1
    /\ w_pc = "DediNotInRangeError" => w_count = MaxWalkCount + 1

----------------------------------------------------------------------------
(* Properties of the laps of YTrapStation                                  *)

\* a call of complete that got past spawn: its try statement was entered
YTrapCompletes ==
    /\ yt_pc = "idle"
    /\ yt_pc' = "done"
    /\ yt_raised' # "spawn"

\* C31: refill_lap becomes true only in a call made with the cursor at the
\* first bed; it becomes false only in the call that finishes the last bed,
\* which also sets last_refilled_pellets to the time of the call, and
\* last_refilled_pellets changes in no other call; the statistics of every
\* call of the lap carry refill_lap = true.
C31_RefillLapIsOneTraversal ==
    [][/\ (~refill_lap /\ refill_lap') => yt_current_bed = 0
       /\ (refill_lap /\ ~refill_lap') =>
              /\ yt_current_bed = NumBeds - 1
              /\ yt_current_bed' = 0
              /\ last_refilled_pellets' = now
       /\ last_refilled_pellets' # last_refilled_pellets =>
              (refill_lap /\ ~refill_lap')
       /\ (YTrapCompletes /\ yt_raised' = "none"
             /\ (refill_lap \/ refill_lap')) => yt_stats'.refill_lap]_vars

\* the last bed of a refill lap that was started by check_refill_lap
C31_Witness ==
    /\ yt_pc = "done"
    /\ yt_raised = "none"
    /\ yt_stats.refill_lap
    /\ ~refill_lap
    /\ yt_current_bed = 0
    /\ current_lap = 2
    /\ last_refilled_pellets = now
    /\ now = 3 * TickSeconds

\* C32: a call of complete outside a refill lap initiates one exactly when
\* the cursor is at the first bed and more than 8 hours have passed since
\* the last refill.
C32_RefillAfterEightHours ==
    [][(YTrapCompletes /\ ~refill_lap) =>
          (refill_lap' <=> (/\ yt_current_bed = 0
                            /\ now - last_refilled_pellets > 8 * 3600))]_vars

\* what the code does: the same with 24 hours
C32_RefillAfterTwentyFourHours ==
    [][(YTrapCompletes /\ ~refill_lap) =>
          (refill_lap' <=> (/\ yt_current_bed = 0
                            /\ now - last_refilled_pellets > 24 * 3600))]_vars

----------------------------------------------------------------------------
(* Properties of get_amount_turret                                         *)

\* the cost of n auto turrets and n heavy auto turrets
CombinedCost(n) ==
    [material \in Materials |->
        n * (AUTO_TURRET_COST[material] + HEAVY_AUTO_TURRET_COST[material])]

\* C33: get_amount_turret returns the largest n such that n combined costs
\* are not higher than what is owned, of every material.
C33_LargestAmountNotHigherThanOwned ==
    pc = "can_craft" =>
        /\ t_can_craft >= 0
        /\ Affordable_up_to_owned(CombinedCost(t_can_craft), t_owned)
        /\ ~Affordable_up_to_owned(CombinedCost(t_can_craft + 1), t_owned)

\* what the code returns: the largest n such that n combined costs are
\* lower than what is owned, of every material
C33_LargestAmountLowerThanOwned ==
    pc = "can_craft" =>
        /\ t_can_craft >= 0
        /\ t_can_craft > 0 => Affordable(CombinedCost(t_can_craft), t_owned)
        /\ ~Affordable(CombinedCost(t_can_craft + 1), t_owned)

\* exactly one combined cost is owned and no turret can be crafted
C33_OneCombinedCostGivesNone ==
    /\ pc = "can_craft"
    /\ t_owned = CombinedCost(1)
    /\ t_can_craft = 0

----------------------------------------------------------------------------
(* Properties of the bed cursors                                           *)

\* the cursor goes from the last of beds to 0
Wraps(bed, next_bed, beds) == bed = beds - 1 /\ next_bed = 0

\* C34, the range: both cursors are positions of a bed.
C34_CursorsInRange ==
    /\ g_current_bed \in 0..(NumSeedBeds - 1)
    /\ yt_current_bed \in 0..(NumBeds - 1)

\* C34, the laps: the lap counters grow by one in the steps in which the
\* cursor wraps and are left alone in all others.
C34_LapsCountWraps ==
    [][LET seeded == IF Wraps(g_current_bed, g_current_bed', NumSeedBeds)
                     THEN 1 ELSE 0
           trapped == IF Wraps(yt_current_bed, yt_current_bed', NumBeds)
                      THEN 1 ELSE 0
       IN  /\ laps_completed' = laps_completed + seeded
           /\ g_current_lap' = g_current_lap + seeded
           /\ current_lap' = current_lap + trapped]_vars

\* C34: the bed cursors stay in 0 .. number of beds - 1 and the lap
\* counters grow by exactly one at the calls in which the cursor wraps from
\* the last bed to 0, and at no other.
C34_CursorInRangeAndLapsCountWraps ==
    /\ []C34_CursorsInRange
    /\ C34_LapsCountWraps

\* both cursors have just wrapped
C34_Witness ==
    /\ g_pc = "done"
    /\ tick.bed = NumSeedBeds - 1
    /\ g_current_bed = 0
    /\ g_current_lap = 1
    /\ laps_completed = 1
    /\ yt_pc = "done"
    /\ yt_current_bed = 0
    /\ current_lap = 1

----------------------------------------------------------------------------
(* Properties of current_station                                           *)

\* C35: current_station is a key of station_turns in every state, so that
\* find_quickest_way_to finds it on the ring.
C35_CurrentStationIsOnTheRing ==
    current_station \in StationSet(station_turns)

\* turn_to from the station resync_to_vault left the bot at
C35_Witness ==
    /\ pc = "returned"
    /\ start = "Electronics"
    /\ target = "Grinder"
    /\ current_station = "Grinder"
    /\ direction = "forward"

----------------------------------------------------------------------------
(* Properties of completions that raise                                    *)

\* a call of YTrapStation.complete that raises
YTrapRaises ==
    /\ yt_pc = "idle"
    /\ yt_pc' = "done"
    /\ yt_raised' # "none"

YTrapCleanUp ==
    /\ total_ytraps_deposited' = total_ytraps_deposited
    /\ yt_current_bed' = (yt_current_bed + 1) % NumBeds

\* the half of C36 about CrystalStation: a call of complete that raises
\* leaves the counters as they were and sets last_completed
C36_RaisingCrystalCompletion ==
    [][(CrystalCompletes /\ cr_raised' # "none") =>
          /\ total_pickups' = total_pickups
          /\ total_made' = total_made
          /\ last_completed' = now]_vars

\* the half of C36 about YTrapStation: a call of complete that raises
\* leaves total_ytraps_deposited as it was and advances the cursor
C36_RaisingYTrapCompletion ==
    [][YTrapRaises => YTrapCleanUp]_vars

\* C36: a completion that raises adds nothing to the accumulators of its
\* station, and its cleanup (last_completed of the crystal station, the
\* cursor of the Y-trap station) still takes effect.
C36_RaisingCompletionCountsNothing ==
    /\ C36_RaisingCrystalCompletion
    /\ C36_RaisingYTrapCompletion

\* the same for the calls of YTrapStation.complete that raise after spawn
C36_RaisingInsideTheTry ==
    [][(YTrapRaises /\ yt_raised' # "spawn") => YTrapCleanUp]_vars

----------------------------------------------------------------------------
(* Properties of load_gacha *)

\* the Y-traps counted in the inventory, 10 to the stack
CountedTraps == lg_stacks * 10

C37_FourHundredCounted ==
    /\ yt_pc = "loaded"
    /\ CountedTraps = 400
    /\ lg_transferred = 600
    /\ lg_amount = 400

====
